---- MODULE Spec2Model ----
(***************************************************************************)
(* A model of gopiq's ImageProcessor (gopiq.go, formats.go): the pixel     *)
(* buffers, the chainable transforms with their first-error latch, the     *)
(* strip-parallel grayscale with its worker goroutines, and the            *)
(* sync.RWMutex that guards every processor.                               *)
(*                                                                         *)
(* A Go slice index i is the TLA+ sequence index i+1.                      *)
(***************************************************************************)
EXTENDS Integers, Sequences, FiniteSets, TLC

(***************************************************************************)
(* Bounds of the model.                                                    *)
(***************************************************************************)
MaxW == 2          \* widest source image
MaxH == 3          \* tallest source image
MaxOps == 2        \* calls one goroutine issues in a chain
NumCPU == 2        \* runtime.NumCPU() of the host

Min2(a, b) == IF a < b THEN a ELSE b
Max2(a, b) == IF a > b THEN a ELSE b

(***************************************************************************)
(* image.Rectangle and *image.RGBA.  A buffer is a record                  *)
(*   rgba   : TRUE for *image.RGBA, FALSE for any other image.Image        *)
(*   minX, minY, maxX, maxY : Bounds()                                     *)
(*   stride : bytes per row                                                *)
(*   pix    : the Pix byte array; for an image that is no *image.RGBA, the *)
(*            four 16-bit values Color.RGBA() returns for each pixel (a    *)
(*            JPEG decodes to *image.YCbCr, a PNG to *image.NRGBA,         *)
(*            *image.RGBA64 and others, whose colours need not be whole    *)
(*            multiples of 0x101)                                          *)
(***************************************************************************)
Rect(x0, y0, x1, y1) ==
  [minX |-> Min2(x0, x1), minY |-> Min2(y0, y1),
   maxX |-> Max2(x0, x1), maxY |-> Max2(y0, y1)]

Bounds(b) == [minX |-> b.minX, minY |-> b.minY, maxX |-> b.maxX, maxY |-> b.maxY]
Dx(r) == r.maxX - r.minX
Dy(r) == r.maxY - r.minY
Empty(r) == r.minX >= r.maxX \/ r.minY >= r.maxY

\* A Rectangle.In that takes the maximum of s as outside.
RectInBelowMax(r, s) ==
  IF Empty(r) THEN TRUE
  ELSE /\ s.minX <= r.minX /\ r.maxX < s.maxX
       /\ s.minY <= r.minY /\ r.maxY < s.maxY

\* Rectangle.In: every point of r is in s (an empty r is in every s).
RectIn(r, s) ==
  IF Empty(r) THEN TRUE
  ELSE /\ s.minX <= r.minX /\ r.maxX <= s.maxX
       /\ s.minY <= r.minY /\ r.maxY <= s.maxY

Zeros(n) == [i \in 1..n |-> 0]

\* image.NewRGBA(r), reached through newRGBA: zeroed, Stride = 4*Dx.
newRGBA(r) ==
  [rgba |-> TRUE, minX |-> r.minX, minY |-> r.minY, maxX |-> r.maxX, maxY |-> r.maxY,
   stride |-> 4 * Dx(r), pix |-> Zeros(4 * Dx(r) * Dy(r))]

\* RGBA.PixOffset(x, y): the Go index of the first byte of pixel (x, y).
PixOffset(b, x, y) == (y - b.minY) * b.stride + (x - b.minX) * 4

InPix(b, i) == 0 <= i /\ i + 3 < Len(b.pix)

\* The four channels of the pixel at absolute position (x, y): img.At(x, y).
At(b, x, y) ==
  LET o == PixOffset(b, x, y)
  IN  <<b.pix[o + 1], b.pix[o + 2], b.pix[o + 3], b.pix[o + 4]>>

\* The pixels of a buffer as a grid indexed from its top-left corner.
Pixels(b) ==
  [j \in 0..(Dy(b) - 1) |-> [i \in 0..(Dx(b) - 1) |-> At(b, b.minX + i, b.minY + j)]]

\* img.At(x, y).RGBA(): the 16-bit channels of the colour; an 8-bit channel
\* c of color.RGBA is c * 0x101.
AtRGBA(b, x, y) ==
  IF b.rgba THEN [ch \in 1..4 |-> At(b, x, y)[ch] * 257] ELSE At(b, x, y)

\* A draw.Draw that ignores the source point sp.
DrawSrcFromMin(dst, src, spX, spY) ==
  [dst EXCEPT !.pix =
     [k \in 1..Len(dst.pix) |->
        LET row == (k - 1) \div dst.stride
            col == ((k - 1) % dst.stride) \div 4
            ch  == (k - 1) % 4
        IN  AtRGBA(src, src.minX + col, src.minY + row)[ch + 1] \div 256]]

\* draw.Draw(dst, dst.Bounds(), src, sp, draw.Src) on a fresh dst: dst pixel
\* (dst.min + (i, j)) becomes src pixel (sp + (i, j)), each channel the high
\* 8 bits of the 16-bit channel of the source colour.
DrawSrc(dst, src, spX, spY) ==
  [dst EXCEPT !.pix =
     [k \in 1..Len(dst.pix) |->
        LET row == (k - 1) \div dst.stride
            col == ((k - 1) % dst.stride) \div 4
            ch  == (k - 1) % 4
        IN  AtRGBA(src, spX + col, spY + row)[ch + 1] \div 256]]

(***************************************************************************)
(* The luminosity formula, as the code evaluates it:                       *)
(*   uint8(0.2126*float64(r) + 0.7152*float64(g) + 0.0722*float64(b))      *)
(* The conversion truncates.  The sum is evaluated in IEEE-754 binary64,   *)
(* left to right; when the exact sum is a whole number the rounded sum can *)
(* fall just below it, and truncation then yields one less.  Float64Short  *)
(* lists the channel triples of the model for which it does.               *)
(***************************************************************************)
ShortGrays ==
  {5, 7, 10, 13, 14, 20, 26, 28, 40, 43, 49, 51, 52, 56, 59, 63, 80, 83, 86, 89,
   95, 98, 101, 102, 104, 105, 107, 112, 115, 118, 126, 157, 160, 166, 172, 178,
   179, 185, 190, 191, 193, 196, 199, 202, 204, 205, 208, 210, 211, 214, 221, 224,
   227, 230, 233, 236, 239, 245, 249, 251, 252, 255}

Float64Short == {<<k, k, k>> : k \in ShortGrays} \cup {<<0, 28, 152>>}

Gray(r, g, b) ==
  LET s == 2126 * r + 7152 * g + 722 * b
  IN  IF <<r, g, b>> \in Float64Short THEN (s \div 10000) - 1 ELSE s \div 10000

\* The destination pixel written for a source pixel <<r, g, b, a>>.
GrayPixel(px) ==
  LET gray == Gray(px[1], px[2], px[3]) IN <<gray, gray, gray, px[4]>>

\* Four bytes of pix written at Go index i.
WritePixel(pix, i, px) ==
  [k \in 1..Len(pix) |-> IF k - 1 >= i /\ k - 1 <= i + 3 THEN px[k - i] ELSE pix[k]]

ReadPixel(pix, i) == <<pix[i + 1], pix[i + 2], pix[i + 3], pix[i + 4]>>

\* srcRGBA: the current image itself when it is an *image.RGBA, else a fresh
\* RGBA copy of it.
NeedsConversion(img) == ~img.rgba
ToRGBA(img) ==
  IF img.rgba THEN img ELSE DrawSrc(newRGBA(Bounds(img)), img, img.minX, img.minY)

(***************************************************************************)
(* The sequential engine: Grayscale and grayscaleDirect run the same loop. *)
(* Rows and columns count from 0; indices are y*Stride + x*4 in both       *)
(* buffers.                                                                *)
(***************************************************************************)
SeqSrcIdx(src, x, y) == y * src.stride + x * 4
SeqDstIdx(dst, x, y) == y * dst.stride + x * 4

\* Some access of the sequential loop is outside Pix: the runtime panics.
SeqPanics(src, dst) ==
  \E y \in 0..(Dy(dst) - 1), x \in 0..(Dx(dst) - 1) :
     ~InPix(src, SeqSrcIdx(src, x, y)) \/ ~InPix(dst, SeqDstIdx(dst, x, y))

RECURSIVE SeqLoop(_, _, _, _)
\* The loop from pixel number n (row-major) on, writing into pix.
SeqLoop(src, dst, pix, n) ==
  IF n >= Dx(dst) * Dy(dst) THEN pix
  ELSE LET y == n \div Dx(dst)
           x == n % Dx(dst)
       IN  SeqLoop(src, dst,
                   WritePixel(pix, SeqDstIdx(dst, x, y),
                              GrayPixel(ReadPixel(src.pix, SeqSrcIdx(src, x, y)))),
                   n + 1)

\* A destination with the size of the source and the origin (0,0).
grayscaleSequentialAtOrigin(srcRGBA) ==
  LET dstRGBA == newRGBA(Rect(0, 0, Dx(srcRGBA), Dy(srcRGBA)))
  IN  [dstRGBA EXCEPT !.pix = SeqLoop(srcRGBA, dstRGBA, dstRGBA.pix, 0)]

grayscaleSequential(srcRGBA) ==
  LET dstRGBA == newRGBA(Bounds(srcRGBA))
  IN  [dstRGBA EXCEPT !.pix = SeqLoop(srcRGBA, dstRGBA, dstRGBA.pix, 0)]

(***************************************************************************)
(* The parallel engine, grayscaleParallel.                                 *)
(***************************************************************************)
\* numGoroutines without "don't use more goroutines than we have rows".
NumGoroutinesUnclamped(perfOpts, height) ==
  IF perfOpts.MaxGoroutines <= 0 THEN NumCPU ELSE perfOpts.MaxGoroutines

\* numGoroutines: MaxGoroutines, or NumCPU when that is <= 0, at most height.
NumGoroutines(perfOpts, height) ==
  LET n == IF perfOpts.MaxGoroutines <= 0 THEN NumCPU ELSE perfOpts.MaxGoroutines
  IN  IF n > height THEN height ELSE n

RowsPerGoroutine(height, numGoroutines) == height \div numGoroutines

StartRow(goroutineID, rowsPerGoroutine) == goroutineID * rowsPerGoroutine

\* EndRow without "last goroutine handles remaining rows".
EndRowEqualStrips(goroutineID, rowsPerGoroutine, numGoroutines, height) ==
  StartRow(goroutineID, rowsPerGoroutine) + rowsPerGoroutine

EndRow(goroutineID, rowsPerGoroutine, numGoroutines, height) ==
  IF goroutineID = numGoroutines - 1 THEN height
  ELSE StartRow(goroutineID, rowsPerGoroutine) + rowsPerGoroutine

\* A destination index without the row: every strip lands in the first row.
ParDstIdxSharedRow(dst, x, y) == x * 4

\* rowStart + x*4 and dstRowStart + x*4 of the worker loop; y and x count from 0.
ParSrcIdx(src, x, y) == (y - src.minY) * src.stride + (0 - src.minX) * 4 + x * 4
ParDstIdx(dst, x, y) == (y - dst.minY) * dst.stride + (0 - dst.minX) * 4 + x * 4

\* Some access of the worker loops is outside Pix: a worker panics.
ParPanics(src, dst) ==
  \E y \in 0..(Dy(dst) - 1), x \in 0..(Dx(dst) - 1) :
     ~InPix(src, ParSrcIdx(src, x, y)) \/ ~InPix(dst, ParDstIdx(dst, x, y))

RECURSIVE ParLoop(_, _, _, _)
\* What the workers together write, strip after strip (the strips are the
\* rows 0..height-1 in order), from pixel number n on.
ParLoop(src, dst, pix, n) ==
  IF n >= Dx(dst) * Dy(dst) THEN pix
  ELSE LET y == n \div Dx(dst)
           x == n % Dx(dst)
       IN  ParLoop(src, dst,
                   WritePixel(pix, ParDstIdx(dst, x, y),
                              GrayPixel(ReadPixel(src.pix, ParSrcIdx(src, x, y)))),
                   n + 1)

\* dstRGBA once every worker has run its strip.
grayscaleParallelResult(srcRGBA) ==
  LET dstRGBA == newRGBA(Bounds(srcRGBA))
  IN  [dstRGBA EXCEPT !.pix = ParLoop(srcRGBA, dstRGBA, dstRGBA.pix, 0)]

\* A choice of engine that takes the threshold itself as too small.
UseParallelAboveThreshold(perfOpts, width, height) ==
  perfOpts.EnableParallelProcessing /\ width * height > perfOpts.MinSizeForParallel

\* GrayscaleFast's choice of engine.
UseParallel(perfOpts, width, height) ==
  perfOpts.EnableParallelProcessing /\ width * height >= perfOpts.MinSizeForParallel

(***************************************************************************)
(* Errors.  fmt.Errorf allocates a new error value on every call: id tells *)
(* two errors with the same text apart.  info holds the values the message *)
(* is formatted with.                                                      *)
(***************************************************************************)
NoErr == [kind |-> "nil", id |-> 0, info |-> <<>>]
Errorf(kind, id, info) == [kind |-> kind, id |-> id, info |-> info]

NilImage == 0      \* a nil image.Image

(***************************************************************************)
(* PerformanceOptions.                                                     *)
(***************************************************************************)
DefaultMinSizeForParallel == 10000

DefaultPerformanceOptions ==
  [MaxGoroutines |-> NumCPU, EnableParallelProcessing |-> TRUE,
   MinSizeForParallel |-> DefaultMinSizeForParallel]

\* The zero value, which a processor born from a failed constructor holds.
ZeroPerformanceOptions ==
  [MaxGoroutines |-> 0, EnableParallelProcessing |-> FALSE, MinSizeForParallel |-> 0]

(***************************************************************************)
(* The body of each chainable method, between the Lock and the deferred    *)
(* Unlock, as a function of                                                *)
(*   st.heap  : the buffers allocated so far (a buffer's index is its      *)
(*              reference)                                                 *)
(*   st.ip    : the fields of the processor: currentImage, err, perfOpts   *)
(*   st.nerr  : the number of error values allocated so far                *)
(*   st.panic : the runtime panic raised, "" when none                     *)
(*   st.dot   : the Dot of the font.Drawer the call drew with, NoDot when  *)
(*              it drew nothing                                            *)
(***************************************************************************)
\* ip.err = fmt.Errorf(...); return ip
Fail(st, kind, info) ==
  [st EXCEPT !.ip.err = Errorf(kind, st.nerr + 1, info), !.nerr = st.nerr + 1]

\* A buffer allocated by this call.
Alloc(st, buf) == [st EXCEPT !.heap = Append(st.heap, buf)]

\* A transform that overwrites the current buffer instead of installing a
\* new one.
InstallInPlace(st, buf) ==
  [st EXCEPT !.heap[st.ip.currentImage] = buf]

\* ip.currentImage = <the buffer just allocated>; return ip
Install(st, buf) ==
  [st EXCEPT !.heap = Append(st.heap, buf), !.ip.currentImage = Len(st.heap) + 1]

Panic(st, what) == [st EXCEPT !.panic = what]

\* ip.currentImage.Bounds() on a nil interface panics.
NilDeref(st) == st.ip.currentImage = NilImage

\* Crop without the check of the latched error.
CropUnlatched(st, x, y, width, height) ==
  IF width <= 0 \/ height <= 0
  THEN Fail(st, "crop dimensions must be positive", <<width, height>>)
  ELSE IF NilDeref(st) THEN Panic(st, "nil pointer dereference")
  ELSE LET src      == st.heap[st.ip.currentImage]
           cropRect == Rect(x, y, x + width, y + height)
       IN  IF ~RectIn(cropRect, Bounds(src))
           THEN Fail(st, "crop rectangle is out of image bounds", <<>>)
           ELSE Install(st, DrawSrc(newRGBA(Rect(0, 0, width, height)), src,
                                    cropRect.minX, cropRect.minY))

\* A Crop whose dimension check forgets the height.
CropChecksWidthOnly(st, x, y, width, height) ==
  IF st.ip.err # NoErr THEN st
  ELSE IF width <= 0
  THEN Fail(st, "crop dimensions must be positive", <<width, height>>)
  ELSE IF NilDeref(st) THEN Panic(st, "nil pointer dereference")
  ELSE LET src      == st.heap[st.ip.currentImage]
           cropRect == Rect(x, y, x + width, y + height)
       IN  IF ~RectIn(cropRect, Bounds(src))
           THEN Fail(st, "crop rectangle is out of image bounds", <<>>)
           ELSE Install(st, DrawSrc(newRGBA(Rect(0, 0, width, height)), src,
                                    cropRect.minX, cropRect.minY))

\* Crop with the rectangle check ahead of the dimension check.
CropChecksRectangleFirst(st, x, y, width, height) ==
  IF st.ip.err # NoErr THEN st
  ELSE IF NilDeref(st) THEN Panic(st, "nil pointer dereference")
  ELSE LET src      == st.heap[st.ip.currentImage]
           cropRect == Rect(x, y, x + width, y + height)
       IN  IF ~RectIn(cropRect, Bounds(src))
           THEN Fail(st, "crop rectangle is out of image bounds", <<>>)
           ELSE IF width <= 0 \/ height <= 0
           THEN Fail(st, "crop dimensions must be positive", <<width, height>>)
           ELSE Install(st, DrawSrc(newRGBA(Rect(0, 0, width, height)), src,
                                    cropRect.minX, cropRect.minY))

Crop(st, x, y, width, height) ==
  IF st.ip.err # NoErr THEN st
  ELSE IF width <= 0 \/ height <= 0
  THEN Fail(st, "crop dimensions must be positive", <<width, height>>)
  ELSE IF NilDeref(st) THEN Panic(st, "nil pointer dereference")
  ELSE LET src      == st.heap[st.ip.currentImage]
           bounds   == Bounds(src)
           cropRect == Rect(x, y, x + width, y + height)
       IN  IF ~RectIn(cropRect, bounds)
           THEN Fail(st, "crop rectangle is out of image bounds",
                     <<cropRect.minX, cropRect.minY, cropRect.maxX, cropRect.maxY,
                       bounds.minX, bounds.minY, bounds.maxX, bounds.maxY>>)
           ELSE Install(st, DrawSrc(newRGBA(Rect(0, 0, width, height)), src,
                                    cropRect.minX, cropRect.minY))

\* draw.CatmullRom.Scale(dst, dr, src, sr, draw.Src, nil) belongs to
\* golang.org/x/image; the kernel is outside this repository.  It fills
\* every pixel of dr from src, and returns at once on an empty sr.  The
\* model samples the nearest source pixel.
Scale(dst, src) ==
  IF Empty(Bounds(src)) \/ Empty(Bounds(dst)) THEN dst
  ELSE [dst EXCEPT !.pix =
          [k \in 1..Len(dst.pix) |->
             LET row == (k - 1) \div dst.stride
                 col == ((k - 1) % dst.stride) \div 4
                 ch  == (k - 1) % 4
             IN  AtRGBA(src, src.minX + (col * Dx(src)) \div Dx(dst),
                             src.minY + (row * Dy(src)) \div Dy(dst))[ch + 1] \div 256]]

\* Resize with the dimension check ahead of the check of the latched error.
ResizeChecksDimensionsFirst(st, width, height) ==
  IF width <= 0 \/ height <= 0
  THEN Fail(st, "resize dimensions must be positive", <<width, height>>)
  ELSE IF st.ip.err # NoErr THEN st
  ELSE IF NilDeref(st) THEN Panic(st, "nil pointer dereference")
  ELSE Install(st, Scale(newRGBA(Rect(0, 0, width, height)), st.heap[st.ip.currentImage]))

\* A Resize whose destination has the bounds of the source.
ResizeKeepsBounds(st, width, height) ==
  IF st.ip.err # NoErr THEN st
  ELSE IF width <= 0 \/ height <= 0
  THEN Fail(st, "resize dimensions must be positive", <<width, height>>)
  ELSE IF NilDeref(st) THEN Panic(st, "nil pointer dereference")
  ELSE Install(st, Scale(newRGBA(Bounds(st.heap[st.ip.currentImage])),
                         st.heap[st.ip.currentImage]))

Resize(st, width, height) ==
  IF st.ip.err # NoErr THEN st
  ELSE IF width <= 0 \/ height <= 0
  THEN Fail(st, "resize dimensions must be positive", <<width, height>>)
  ELSE IF NilDeref(st) THEN Panic(st, "nil pointer dereference")
  ELSE Install(st, Scale(newRGBA(Rect(0, 0, width, height)), st.heap[st.ip.currentImage]))

\* A grayscale loop with dstRGBA := srcRGBA: the gray values land in the
\* source buffer.
grayscaleDirectInPlace(st) ==
  IF NilDeref(st) THEN Panic(st, "nil pointer dereference")
  ELSE LET cur == st.heap[st.ip.currentImage]
       IN  IF NeedsConversion(cur) THEN Install(st, grayscaleSequential(ToRGBA(cur)))
           ELSE IF SeqPanics(cur, cur) THEN Panic(st, "index out of range")
           ELSE [st EXCEPT !.heap[st.ip.currentImage] = grayscaleSequential(cur)]

\* The loop of Grayscale and of grayscaleDirect on the current image:
\* srcRGBA (allocated when the image is no *image.RGBA), then dstRGBA.
grayscaleDirect(st) ==
  IF NilDeref(st) THEN Panic(st, "nil pointer dereference")
  ELSE LET cur     == st.heap[st.ip.currentImage]
           st1     == IF NeedsConversion(cur) THEN Alloc(st, ToRGBA(cur)) ELSE st
           srcRGBA == ToRGBA(cur)
       IN  IF SeqPanics(srcRGBA, newRGBA(Bounds(cur)))
           THEN Panic(st1, "index out of range")
           ELSE Install(st1, grayscaleSequential(srcRGBA))

\* Grayscale without the check of the latched error.
GrayscaleUnlatched(st) == grayscaleDirect(st)

Grayscale(st) ==
  IF st.ip.err # NoErr THEN st ELSE grayscaleDirect(st)

\* grayscaleParallel as one call, from the conversion to the assignment of
\* dstRGBA: the division by a worker count of zero and an index outside Pix
\* panic.
grayscaleParallel(st) ==
  LET cur == st.heap[st.ip.currentImage]
      st1 == IF NeedsConversion(cur) THEN Alloc(st, ToRGBA(cur)) ELSE st
  IN  IF NumGoroutines(st.ip.perfOpts, Dy(cur)) = 0
      THEN Panic(Alloc(st1, newRGBA(Bounds(cur))), "integer divide by zero")
      ELSE IF ParPanics(ToRGBA(cur), newRGBA(Bounds(cur)))
      THEN Panic(Alloc(st1, newRGBA(Bounds(cur))), "index out of range")
      ELSE Install(st1, grayscaleParallelResult(ToRGBA(cur)))

GrayscaleFast(st) ==
  IF st.ip.err # NoErr THEN st
  ELSE IF NilDeref(st) THEN Panic(st, "nil pointer dereference")
  ELSE LET cur == st.heap[st.ip.currentImage]
       IN  IF UseParallel(st.ip.perfOpts, Dx(cur), Dy(cur))
           THEN grayscaleParallel(st)
           ELSE grayscaleDirect(st)

\* A SetPerformanceOptions that, like the transforms, does nothing on a
\* processor with a latched error.
SetPerformanceOptionsIfReady(st, opts) ==
  IF st.ip.err # NoErr THEN st ELSE [st EXCEPT !.ip.perfOpts = opts]

SetPerformanceOptions(st, opts) == [st EXCEPT !.ip.perfOpts = opts]

(***************************************************************************)
(* AddTextWatermark.  Font parsing, face creation, text measuring and      *)
(* glyph drawing belong to golang.org/x/image; a call says whether the     *)
(* font bytes parse and whether a face can be built, and which metrics the *)
(* face and the text have.  Metrics, offsets and the Dot of the drawer are *)
(* counted in 1/64 pixel, the unit of fixed.Int26_6; the offsets of the    *)
(* model are whole multiples of it, so that every float64 value of the     *)
(* position arithmetic is exact.  The model draws the text as one pixel of *)
(* ink at the pixel of the Dot.                                            *)
(***************************************************************************)
PositionTopLeft == 0
PositionTopRight == 1
PositionBottomLeft == 2
PositionBottomRight == 3
PositionCenter == 4

DefaultOffset == 640     \* OffsetX: 10, OffsetY: 10

DefaultFontSize == 24    \* FontSize: 24

\* color.RGBA{255, 255, 255, 128}
DefaultColor == <<255, 255, 255, 128>>

\* A watermarkConfig with the given anchor position and offsets and the
\* defaults in its other fields.  Font bytes are known by name: those of
\* goregular.TTF are the default.
WatermarkConfig(position, offsetX, offsetY) ==
  [Text |-> "", FontPath |-> "", FontBytes |-> "goregular.TTF",
   FontSize |-> DefaultFontSize, Color |-> DefaultColor,
   Position |-> position, OffsetX |-> offsetX, OffsetY |-> offsetY]

defaultWatermarkConfig == WatermarkConfig(PositionBottomRight, DefaultOffset, DefaultOffset)

\* What the face and dr.BoundString report: the width of the text, and
\* Height, Ascent and Descent of face.Metrics().
Face(textWidth, height, ascent, descent) ==
  [textWidth |-> textWidth, Height |-> height, Ascent |-> ascent, Descent |-> descent]

NoDot == <<>>

\* int(x) for the float64 x = n/d, d > 0: the fraction is dropped, towards zero.
Trunc(n, d) == IF n >= 0 THEN n \div d ELSE 0 - ((0 - n) \div d)

\* The float64 x and y of the switch on cfg.Position, in 1/128 pixel; both
\* stay 0 for a position outside the five.
AnchorX(cfg, bounds, face) ==
  CASE cfg.Position = PositionTopLeft -> 2 * cfg.OffsetX
    [] cfg.Position = PositionTopRight -> 2 * (64 * Dx(bounds) - face.textWidth - cfg.OffsetX)
    [] cfg.Position = PositionBottomLeft -> 2 * cfg.OffsetX
    [] cfg.Position = PositionBottomRight -> 2 * (64 * Dx(bounds) - face.textWidth - cfg.OffsetX)
    [] cfg.Position = PositionCenter -> 64 * Dx(bounds) - face.textWidth
    [] OTHER -> 0

AnchorY(cfg, bounds, face) ==
  CASE cfg.Position = PositionTopLeft -> 2 * (cfg.OffsetY + face.Ascent)
    [] cfg.Position = PositionTopRight -> 2 * (cfg.OffsetY + face.Ascent)
    [] cfg.Position = PositionBottomLeft -> 2 * (64 * Dy(bounds) - cfg.OffsetY - face.Descent)
    [] cfg.Position = PositionBottomRight -> 2 * (64 * Dy(bounds) - cfg.OffsetY - face.Descent)
    [] cfg.Position = PositionCenter -> (64 * Dy(bounds) - face.Height) + 2 * face.Ascent
    [] OTHER -> 0

\* A Dot without int(): x and y converted to fixed.Int26_6 as they are.
DrawerDotUntruncated(cfg, bounds, face) ==
  <<AnchorX(cfg, bounds, face) \div 2, AnchorY(cfg, bounds, face) \div 2>>

\* dr.Dot = fixed.Point26_6{X: fixed.I(int(x)), Y: fixed.I(int(y))}
DrawerDot(cfg, bounds, face) ==
  <<64 * Trunc(AnchorX(cfg, bounds, face), 128), 64 * Trunc(AnchorY(cfg, bounds, face), 128)>>

Ink == <<255, 255, 255, 128>>

\* dr.DrawString(cfg.Text) with the drawer's Dot at dot.
DrawString(dst, dot) ==
  LET x == dot[1] \div 64
      y == dot[2] \div 64
  IN  IF dst.minX <= x /\ x < dst.maxX /\ dst.minY <= y /\ y < dst.maxY
      THEN [dst EXCEPT !.pix = WritePixel(dst.pix, PixOffset(dst, x, y), Ink)]
      ELSE dst

\* An AddTextWatermark that loads the font before it looks at the text.
AddTextWatermarkFontFirst(st, text, fontParses, faceBuilds, cfg, face) ==
  IF st.ip.err # NoErr THEN st
  ELSE IF ~fontParses THEN Fail(st, "failed to parse font bytes for watermark", <<>>)
  ELSE IF ~faceBuilds THEN Fail(st, "failed to create font face for watermark", <<>>)
  ELSE IF text = "" THEN Fail(st, "watermark text cannot be empty", <<>>)
  ELSE IF NilDeref(st) THEN Panic(st, "nil pointer dereference")
  ELSE LET src == st.heap[st.ip.currentImage]
           imgWithWatermark == DrawSrc(newRGBA(Bounds(src)), src, src.minX, src.minY)
           dot == DrawerDot(cfg, Bounds(src), face)
       IN  [Install(st, DrawString(imgWithWatermark, dot)) EXCEPT !.dot = dot]

AddTextWatermark(st, text, fontParses, faceBuilds, cfg, face) ==
  IF st.ip.err # NoErr THEN st
  ELSE IF text = "" THEN Fail(st, "watermark text cannot be empty", <<>>)
  ELSE IF ~fontParses THEN Fail(st, "failed to parse font bytes for watermark", <<>>)
  ELSE IF ~faceBuilds THEN Fail(st, "failed to create font face for watermark", <<>>)
  ELSE IF NilDeref(st) THEN Panic(st, "nil pointer dereference")
  ELSE LET src == st.heap[st.ip.currentImage]
           imgWithWatermark == DrawSrc(newRGBA(Bounds(src)), src, src.minX, src.minY)
           dot == DrawerDot(cfg, Bounds(src), face)
       IN  [Install(st, DrawString(imgWithWatermark, dot)) EXCEPT !.dot = dot]

(***************************************************************************)
(* Formats (formats.go).  The encoders belong to the Go standard library;  *)
(* png.Encode refuses an image without pixels.  Encoded PNG bytes keep the *)
(* pixels; encoded JPEG bytes keep the size.                               *)
(***************************************************************************)
FormatUnknown == 0
FormatJPEG == 1
FormatPNG == 2
FormatGIF == 3

NoBytes == [format |-> FormatUnknown, width |-> 0, height |-> 0, pixels |-> <<>>]

\* An encodeImage that writes a PNG for every tag other than FormatJPEG.
encodeImagePNGByDefault(img, format) ==
  IF format = FormatJPEG
  THEN [data |-> [format |-> FormatJPEG, width |-> Dx(img), height |-> Dy(img),
                  pixels |-> <<>>],
        err |-> ""]
  ELSE IF Empty(Bounds(img))
  THEN [data |-> NoBytes, err |-> "png: invalid image size"]
  ELSE [data |-> [format |-> FormatPNG, width |-> Dx(img), height |-> Dy(img),
                  pixels |-> Pixels(img)],
        err |-> ""]

\* encodeImage: the bytes written and the error kind ("" for nil).
encodeImage(img, format) ==
  CASE format = FormatJPEG ->
         [data |-> [format |-> FormatJPEG, width |-> Dx(img), height |-> Dy(img),
                    pixels |-> <<>>],
          err |-> ""]
    [] format = FormatPNG ->
         IF Empty(Bounds(img))
         THEN [data |-> NoBytes, err |-> "png: invalid image size"]
         ELSE [data |-> [format |-> FormatPNG, width |-> Dx(img), height |-> Dy(img),
                         pixels |-> Pixels(img)],
               err |-> ""]
    [] format = FormatGIF ->
         [data |-> NoBytes, err |-> "GIF encoding is not directly supported"]
    [] OTHER ->
         [data |-> NoBytes, err |-> "unsupported image format for encoding"]

(***************************************************************************)
(* Format names (formats.go).  A Go string is the sequence of its runes, a  *)
(* rune a one-letter string; "U+0130" is the rune LATIN CAPITAL LETTER I    *)
(* WITH DOT ABOVE, whose lower case is "i" in the tables of package        *)
(* unicode.                                                                *)
(***************************************************************************)
ImageFormats == {FormatUnknown, FormatJPEG, FormatPNG, FormatGIF}

\* func (f ImageFormat) String() string
String(f) ==
  CASE f = FormatJPEG -> <<"j", "p", "e", "g">>
    [] f = FormatPNG -> <<"p", "n", "g">>
    [] f = FormatGIF -> <<"g", "i", "f">>
    [] OTHER -> <<"u", "n", "k", "n", "o", "w", "n">>

\* unicode.ToLower on the runes of the model; every other rune of the model
\* has no lower case of its own.
LowerRune(r) ==
  CASE r = "J" -> "j"
    [] r = "P" -> "p"
    [] r = "E" -> "e"
    [] r = "G" -> "g"
    [] r = "N" -> "n"
    [] r = "I" -> "i"
    [] r = "U+0130" -> "i"
    [] r = "F" -> "f"
    [] OTHER -> r

\* strings.ToLower
ToLower(s) == [i \in 1..Len(s) |-> LowerRune(s[i])]

\* A FormatFromString that switches on s as it is spelled.
FormatFromStringExact(s) ==
  CASE s \in {<<"j", "p", "e", "g">>, <<"j", "p", "g">>} -> FormatJPEG
    [] s = <<"p", "n", "g">> -> FormatPNG
    [] s = <<"g", "i", "f">> -> FormatGIF
    [] OTHER -> FormatUnknown

\* func FormatFromString(s string) ImageFormat
FormatFromString(s) ==
  LET lower == ToLower(s)
  IN  CASE lower \in {<<"j", "p", "e", "g">>, <<"j", "p", "g">>} -> FormatJPEG
        [] lower = <<"p", "n", "g">> -> FormatPNG
        [] lower = <<"g", "i", "f">> -> FormatGIF
        [] OTHER -> FormatUnknown

(***************************************************************************)
(* The state.                                                              *)
(***************************************************************************)
VARIABLES
  heap,      \* the buffers allocated so far; a buffer's index is its reference
  procs,     \* the processors created so far: currentImage, err, perfOpts
  locks,     \* the sync.RWMutex mu of each processor
  nerr,      \* the number of error values allocated so far
  pc,        \* where each calling goroutine is
  call,      \* the call each calling goroutine is in
  ret,       \* what its last call returned
  left,      \* how many calls it may still issue
  menu,      \* the calls it may issue
  par,       \* the fork-join state of its last grayscaleParallel
  crashed,   \* a worker goroutine panicked: the process is gone
  trail,     \* per processor, the error each write call issued on it would have
             \* produced on a processor without latched error (NoErr: none)
  hist,      \* per processor, the <<currentImage, err>> pairs it has held
  oplog      \* per processor, the processor it started as and the write calls
             \* that have run on it, in the order they ran

vars == <<heap, procs, locks, nerr, pc, call, ret, left, menu, par, crashed, trail, hist, oplog>>

MaxProcs == 2      \* processors alive at once (the first one and its clones)

Callers == 1..3

WriteOps == {"Crop", "Resize", "Grayscale", "GrayscaleFast", "AddTextWatermark",
             "SetPerformanceOptions"}
ReadOps == {"Image", "Err", "ToBytes", "Clone"}

NoCall == [name |-> "", proc |-> 0, args |-> <<>>]
NoRet == [proc |-> 0, img |-> NilImage, err |-> NoErr, data |-> NoBytes, enc |-> ""]
NoPar == [n |-> 0, wg |-> 0, src |-> 0, dst |-> 0, rows |-> 0, w |-> <<>>]

(***************************************************************************)
(* sync.RWMutex (Go standard library): w is the goroutine that holds the   *)
(* writer side (it has announced itself and waits for the readers to       *)
(* leave, or it is inside), readers the goroutines inside RLock..RUnlock,  *)
(* blocked the readers that arrived while a writer was announced.          *)
(***************************************************************************)
FreeLock == [w |-> 0, readers |-> {}, blocked |-> {}]

\* A Lock that takes the writer side from its holder.
CanLockAlways(l) == TRUE
\* Lock can take the writer side.
CanLock(l) == l.w = 0
\* A Lock that does not wait for the readers.
DrainedAtOnce(l) == TRUE
\* Lock returns: the readers have left.
Drained(l) == l.readers = {}
\* An RLock that ignores the writer.
CanRLockAlways(l) == TRUE
\* RLock returns at once: no writer is announced.
CanRLock(l) == l.w = 0

Processor(img, err, opts) == [currentImage |-> img, err |-> err, perfOpts |-> opts]

StateOf(p) == [heap |-> heap, ip |-> procs[p], nerr |-> nerr, panic |-> "", dot |-> NoDot]

\* The method body a write call runs (GrayscaleFast apart, which forks).
Run(st, c) ==
  CASE c.name = "Crop" -> Crop(st, c.args.x, c.args.y, c.args.width, c.args.height)
    [] c.name = "Resize" -> Resize(st, c.args.width, c.args.height)
    [] c.name = "Grayscale" -> Grayscale(st)
    [] c.name = "AddTextWatermark" ->
         AddTextWatermark(st, c.args.text, c.args.fontParses, c.args.faceBuilds,
                          c.args.cfg, c.args.face)
    [] c.name = "SetPerformanceOptions" -> SetPerformanceOptions(st, c.args.opts)
    [] OTHER -> st

\* What the call would do on a processor without latched error.
Outcome(st, c) == Run([st EXCEPT !.ip.err = NoErr], c).ip.err

Pair(ip) == <<ip.currentImage, ip.err>>

\* The entry of the call goroutine t is in: the call and its number among
\* the calls of t, counted down.
Entry(t) == [t |-> t, k |-> left[t], c |-> call[t]]

\* The entry of a call that drew with a font.Drawer: its Dot as well.
DrawEntry(t, dot) == [t |-> t, k |-> left[t], c |-> call[t], dot |-> dot]

\* The body of a write call has run: its effects, then on to the deferred Unlock.
Commit(t, st2) ==
  LET p == call[t].proc
  IN  /\ heap' = st2.heap
      /\ procs' = [procs EXCEPT ![p] = st2.ip]
      /\ nerr' = st2.nerr
      /\ pc' = [pc EXCEPT ![t] = IF st2.panic # "" THEN "unwind" ELSE "unlock"]
      /\ trail' = [trail EXCEPT ![p] = Append(@, Outcome(StateOf(p), call[t]))]
      /\ hist' = [hist EXCEPT ![p] = @ \cup {Pair(st2.ip)}]
      /\ oplog' = [oplog EXCEPT ![p].calls =
                     Append(@, IF st2.dot = NoDot THEN Entry(t) ELSE DrawEntry(t, st2.dot))]

(***************************************************************************)
(* Write calls: ip.mu.Lock(); defer ip.mu.Unlock(); <body>; return ip      *)
(***************************************************************************)
\* A goroutine calls a write method of processor p and takes the writer side.
Lock(t, c, p) ==
  /\ ~crashed
  /\ pc[t] = "idle" /\ left[t] > 0
  /\ c \in menu[t] /\ c.name \in WriteOps
  /\ p \in 1..Len(procs)
  /\ CanLock(locks[p])
  /\ locks' = [locks EXCEPT ![p].w = t]
  /\ pc' = [pc EXCEPT ![t] = "lock"]
  /\ call' = [call EXCEPT ![t] = [c EXCEPT !.proc = p]]
  /\ left' = [left EXCEPT ![t] = @ - 1]
  /\ ret' = [ret EXCEPT ![t] = NoRet]
  /\ par' = [par EXCEPT ![t] = NoPar]
  /\ UNCHANGED <<heap, procs, nerr, menu, crashed, trail, hist, oplog>>

\* Lock returns once the readers have left.
Locked(t) ==
  /\ ~crashed
  /\ pc[t] = "lock"
  /\ Drained(locks[call[t].proc])
  /\ pc' = [pc EXCEPT ![t] = "cs"]
  /\ UNCHANGED <<heap, procs, locks, nerr, call, ret, left, menu, par, crashed, trail, hist, oplog>>

InBody(t, name) == ~crashed /\ pc[t] = "cs" /\ call[t].name = name

DoCrop(t) ==
  /\ InBody(t, "Crop")
  /\ Commit(t, Run(StateOf(call[t].proc), call[t]))
  /\ UNCHANGED <<locks, call, ret, left, menu, par, crashed>>

DoResize(t) ==
  /\ InBody(t, "Resize")
  /\ Commit(t, Run(StateOf(call[t].proc), call[t]))
  /\ UNCHANGED <<locks, call, ret, left, menu, par, crashed>>

DoGrayscale(t) ==
  /\ InBody(t, "Grayscale")
  /\ Commit(t, Run(StateOf(call[t].proc), call[t]))
  /\ UNCHANGED <<locks, call, ret, left, menu, par, crashed>>

DoAddTextWatermark(t) ==
  /\ InBody(t, "AddTextWatermark")
  /\ Commit(t, Run(StateOf(call[t].proc), call[t]))
  /\ UNCHANGED <<locks, call, ret, left, menu, par, crashed>>

DoSetPerformanceOptions(t) ==
  /\ InBody(t, "SetPerformanceOptions")
  /\ Commit(t, Run(StateOf(call[t].proc), call[t]))
  /\ UNCHANGED <<locks, call, ret, left, menu, par, crashed>>

(***************************************************************************)
(* GrayscaleFast and grayscaleParallel.                                    *)
(***************************************************************************)
\* The worker goroutines as spawned: goroutineID i-1 is about to process
\* pixel (y, x), counted from 0; wrote is the set of Go indices of dstRGBA.Pix
\* it has written.
SpawnWorkers(numGoroutines, rowsPerGoroutine) ==
  [i \in 1..numGoroutines |->
     [y |-> StartRow(i - 1, rowsPerGoroutine), x |-> 0, state |-> "run", wrote |-> {}]]

\* grayscaleParallel up to wg.Wait(): srcRGBA, dstRGBA, the worker count, the
\* strips, the workers.
Fork(t, st) ==
  LET cur    == st.heap[st.ip.currentImage]
      height == Dy(cur)
      st1    == IF NeedsConversion(cur) THEN Alloc(st, ToRGBA(cur)) ELSE st
      srcId  == IF NeedsConversion(cur) THEN Len(st1.heap) ELSE st.ip.currentImage
      st2    == Alloc(st1, newRGBA(Bounds(cur)))
      n      == NumGoroutines(st.ip.perfOpts, height)
  IN  IF n = 0
      THEN /\ Commit(t, Panic(st2, "integer divide by zero"))
           /\ UNCHANGED par
      ELSE /\ heap' = st2.heap
           /\ par' = [par EXCEPT ![t] =
                        [n |-> n, wg |-> n, src |-> srcId, dst |-> Len(st2.heap),
                         rows |-> RowsPerGoroutine(height, n),
                         w |-> SpawnWorkers(n, RowsPerGoroutine(height, n))]]
           /\ pc' = [pc EXCEPT ![t] = "wait"]
           /\ UNCHANGED <<procs, nerr, trail, hist, oplog>>

DoGrayscaleFast(t) ==
  /\ InBody(t, "GrayscaleFast")
  /\ LET st == StateOf(call[t].proc)
     IN  IF st.ip.err # NoErr THEN Commit(t, st) /\ UNCHANGED par
         ELSE IF NilDeref(st)
         THEN Commit(t, Panic(st, "nil pointer dereference")) /\ UNCHANGED par
         ELSE LET cur == st.heap[st.ip.currentImage]
              IN  IF UseParallel(st.ip.perfOpts, Dx(cur), Dy(cur))
                  THEN Fork(t, st)
                  ELSE Commit(t, grayscaleDirect(st)) /\ UNCHANGED par
  /\ UNCHANGED <<locks, call, ret, left, menu, crashed>>

WorkerEnd(pr, i, height) == EndRow(i - 1, pr.rows, pr.n, height)

\* One pixel of a worker: read srcRGBA.Pix, write dstRGBA.Pix.  An index
\* outside Pix panics, and a panic in a goroutine ends the process.
Worker(t, i) ==
  /\ ~crashed
  /\ i \in 1..par[t].n
  /\ LET pr  == par[t]
         src == heap[pr.src]
         dst == heap[pr.dst]
         me  == pr.w[i]
         si  == ParSrcIdx(src, me.x, me.y)
         di  == ParDstIdx(dst, me.x, me.y)
     IN  /\ me.state = "run"
         /\ Dx(dst) > 0
         /\ me.y < WorkerEnd(pr, i, Dy(dst))
         /\ IF ~InPix(src, si) \/ ~InPix(dst, di)
            THEN /\ crashed' = TRUE
                 /\ UNCHANGED <<heap, par>>
            ELSE /\ heap' = [heap EXCEPT ![pr.dst].pix =
                               WritePixel(@, di, GrayPixel(ReadPixel(src.pix, si)))]
                 /\ par' = [par EXCEPT ![t].w[i] =
                              [me EXCEPT !.x = IF me.x + 1 < Dx(dst) THEN me.x + 1 ELSE 0,
                                         !.y = IF me.x + 1 < Dx(dst) THEN me.y ELSE me.y + 1,
                                         !.wrote = @ \cup (di..(di + 3))]]
                 /\ UNCHANGED crashed
  /\ UNCHANGED <<procs, locks, nerr, pc, call, ret, left, menu, trail, hist, oplog>>

\* The worker has processed its strip: the deferred wg.Done().
WorkerDone(t, i) ==
  /\ ~crashed
  /\ i \in 1..par[t].n
  /\ LET pr == par[t]
         me == pr.w[i]
     IN  /\ me.state = "run"
         /\ Dx(heap[pr.dst]) = 0 \/ me.y >= WorkerEnd(pr, i, Dy(heap[pr.dst]))
         /\ par' = [par EXCEPT ![t].w[i].state = "done", ![t].wg = @ - 1]
  /\ UNCHANGED <<heap, procs, locks, nerr, pc, call, ret, left, menu, crashed, trail, hist, oplog>>

\* A wg.Wait() that does not wait.
WaitReturnsAtOnce(pr) == TRUE

\* wg.Wait() returns when the counter is zero.
WaitReturns(pr) == pr.wg = 0

\* wg.Wait(); ip.currentImage = dstRGBA; return ip
Join(t) ==
  /\ ~crashed
  /\ pc[t] = "wait"
  /\ WaitReturns(par[t])
  /\ LET p == call[t].proc
     IN  /\ procs' = [procs EXCEPT ![p].currentImage = par[t].dst]
         /\ trail' = [trail EXCEPT ![p] = Append(@, NoErr)]
         /\ hist' = [hist EXCEPT ![p] = @ \cup {<<par[t].dst, procs[p].err>>}]
         /\ oplog' = [oplog EXCEPT ![p].calls = Append(@, Entry(t))]
  /\ pc' = [pc EXCEPT ![t] = "unlock"]
  /\ UNCHANGED <<heap, locks, nerr, call, ret, left, menu, par, crashed>>

\* A return of a processor made for the occasion instead of the receiver.
ReturnCopy(p) == Len(procs) + 1

\* return ip: every chainable method hands back its receiver.
ReturnIp(p) == p

\* The deferred ip.mu.Unlock(), which also runs when the body panicked, and
\* the return of ip.  The readers that waited for this writer enter.
Unlock(t) ==
  /\ ~crashed
  /\ pc[t] \in {"unlock", "unwind"}
  /\ LET p == call[t].proc
         woken == locks[p].blocked
     IN  /\ locks' = [locks EXCEPT ![p] =
                        [w |-> 0, readers |-> @.readers \cup woken, blocked |-> {}]]
         /\ pc' = [u \in Callers |->
                     IF u = t THEN (IF pc[t] = "unwind" THEN "panicked" ELSE "idle")
                     ELSE IF u \in woken THEN "rcs" ELSE pc[u]]
         /\ ret' = [ret EXCEPT ![t] =
                      [NoRet EXCEPT !.proc = IF pc[t] = "unwind" THEN 0 ELSE ReturnIp(p)]]
  /\ UNCHANGED <<heap, procs, nerr, call, left, menu, par, crashed, trail, hist, oplog>>

(***************************************************************************)
(* Read calls: ip.mu.RLock(); defer ip.mu.RUnlock(); <body>                *)
(***************************************************************************)
ClonesPending == Cardinality({u \in Callers : pc[u] \in {"rcs", "rblocked"} /\ call[u].name = "Clone"})

\* A goroutine calls a read method of processor p: it is inside at once
\* unless a writer is announced, and then it waits for that writer's Unlock.
RLock(t, c, p) ==
  /\ ~crashed
  /\ pc[t] = "idle" /\ left[t] > 0
  /\ c \in menu[t] /\ c.name \in ReadOps
  /\ p \in 1..Len(procs)
  /\ c.name = "Clone" => Len(procs) + ClonesPending < MaxProcs
  /\ IF CanRLock(locks[p])
     THEN /\ locks' = [locks EXCEPT ![p].readers = @ \cup {t}]
          /\ pc' = [pc EXCEPT ![t] = "rcs"]
     ELSE /\ locks' = [locks EXCEPT ![p].blocked = @ \cup {t}]
          /\ pc' = [pc EXCEPT ![t] = "rblocked"]
  /\ call' = [call EXCEPT ![t] = [c EXCEPT !.proc = p]]
  /\ left' = [left EXCEPT ![t] = @ - 1]
  /\ ret' = [ret EXCEPT ![t] = NoRet]
  /\ par' = [par EXCEPT ![t] = NoPar]
  /\ UNCHANGED <<heap, procs, nerr, menu, crashed, trail, hist, oplog>>

InRead(t, name) == ~crashed /\ pc[t] = "rcs" /\ call[t].name = name

\* return ip.currentImage, ip.err: the operands are read left to right.
DoImage(t) ==
  /\ InRead(t, "Image")
  /\ ret' = [ret EXCEPT ![t].img = procs[call[t].proc].currentImage]
  /\ pc' = [pc EXCEPT ![t] = "rcs2"]
  /\ UNCHANGED <<heap, procs, locks, nerr, call, left, menu, par, crashed, trail, hist, oplog>>

DoImageErr(t) ==
  /\ ~crashed
  /\ pc[t] = "rcs2"
  /\ ret' = [ret EXCEPT ![t].err = procs[call[t].proc].err]
  /\ pc' = [pc EXCEPT ![t] = "runlock"]
  /\ UNCHANGED <<heap, procs, locks, nerr, call, left, menu, par, crashed, trail, hist, oplog>>

DoErr(t) ==
  /\ InRead(t, "Err")
  /\ ret' = [ret EXCEPT ![t].err = procs[call[t].proc].err]
  /\ pc' = [pc EXCEPT ![t] = "runlock"]
  /\ UNCHANGED <<heap, procs, locks, nerr, call, left, menu, par, crashed, trail, hist, oplog>>

\* ToBytes: the latched error; or "no image available"; or the encoder's
\* bytes or its error, wrapped (enc is the wrapped error).  The errors it
\* makes are returned, not latched.
ToBytes(ip, h, format, id) ==
  IF ip.err # NoErr THEN [data |-> NoBytes, err |-> ip.err, enc |-> "", made |-> 0]
  ELSE IF ip.currentImage = NilImage
  THEN [data |-> NoBytes, err |-> Errorf("no image available to convert to bytes", id, <<>>),
        enc |-> "", made |-> 1]
  ELSE LET e == encodeImage(h[ip.currentImage], format)
       IN  IF e.err # ""
           THEN [data |-> NoBytes,
                 err |-> Errorf("failed to encode image to bytes", id, <<>>),
                 enc |-> e.err, made |-> 1]
           ELSE [data |-> e.data, err |-> NoErr, enc |-> "", made |-> 0]

\* A ToBytes that latches the error it makes, as the write methods do.
DoToBytesLatching(t) ==
  /\ InRead(t, "ToBytes")
  /\ LET r == ToBytes(procs[call[t].proc], heap, call[t].args.format, nerr + 1)
     IN  /\ ret' = [ret EXCEPT ![t].data = r.data, ![t].err = r.err, ![t].enc = r.enc]
         /\ nerr' = nerr + r.made
         /\ procs' = [procs EXCEPT ![call[t].proc].err = r.err]
  /\ pc' = [pc EXCEPT ![t] = "runlock"]
  /\ UNCHANGED <<heap, locks, call, left, menu, par, crashed, trail, hist, oplog>>

DoToBytes(t) ==
  /\ InRead(t, "ToBytes")
  /\ LET r == ToBytes(procs[call[t].proc], heap, call[t].args.format, nerr + 1)
     IN  /\ ret' = [ret EXCEPT ![t].data = r.data, ![t].err = r.err, ![t].enc = r.enc]
         /\ nerr' = nerr + r.made
  /\ pc' = [pc EXCEPT ![t] = "runlock"]
  /\ UNCHANGED <<heap, procs, locks, call, left, menu, par, crashed, trail, hist, oplog>>

\* A Clone that starts the copy without the latched error.
CloneWithoutError(ip) == Processor(ip.currentImage, NoErr, ip.perfOpts)

\* Clone: a new processor with the same image reference, error and options,
\* and a lock of its own.
Clone(ip) == Processor(ip.currentImage, ip.err, ip.perfOpts)

DoClone(t) ==
  /\ InRead(t, "Clone")
  /\ LET p == call[t].proc
     IN  /\ procs' = Append(procs, Clone(procs[p]))
         /\ locks' = Append(locks, FreeLock)
         /\ trail' = Append(trail, trail[p])
         /\ hist' = Append(hist, {Pair(Clone(procs[p]))})
         /\ oplog' = Append(oplog, oplog[p])
         /\ ret' = [ret EXCEPT ![t].proc = Len(procs) + 1]
  /\ pc' = [pc EXCEPT ![t] = "runlock"]
  /\ UNCHANGED <<heap, nerr, call, left, menu, par, crashed>>

\* The deferred ip.mu.RUnlock() and the return.
RUnlock(t) ==
  /\ ~crashed
  /\ pc[t] = "runlock"
  /\ locks' = [locks EXCEPT ![call[t].proc].readers = @ \ {t}]
  /\ pc' = [pc EXCEPT ![t] = "idle"]
  /\ UNCHANGED <<heap, procs, nerr, call, ret, left, menu, par, crashed, trail, hist, oplog>>

(***************************************************************************)
(* Construction.  An optional image is a sequence of at most one buffer.   *)
(***************************************************************************)
Palette ==
  << <<255, 255, 255, 255>>, <<0, 0, 0, 255>>, <<100, 150, 200, 255>>,
     <<5, 5, 5, 128>>, <<0, 28, 152, 64>>, <<200, 10, 30, 0>> >>

\* A source image of w x h pixels with its top-left corner at (ox, oy); pad
\* bytes (of value 9) separate the rows when the image is a sub-image of a
\* wider one.  The 16-bit channels of an image that is no *image.RGBA have
\* 34 as their low byte.
SourceImage(rgba, ox, oy, w, h, pad) ==
  LET stride == 4 * w + pad
      n == IF h = 0 \/ w = 0 THEN 0 ELSE (h - 1) * stride + 4 * w
  IN  [rgba |-> rgba, minX |-> ox, minY |-> oy, maxX |-> ox + w, maxY |-> oy + h,
       stride |-> stride,
       pix |-> [k \in 1..n |->
                  LET row == (k - 1) \div stride
                      off == (k - 1) % stride
                      c   == Palette[((off \div 4 + w * row) % Len(Palette)) + 1][(off % 4) + 1]
                  IN  IF off >= 4 * w THEN 9
                      ELSE IF rgba THEN c
                      ELSE c * 256 + 34]]

\* p.SubImage(r) of an *image.RGBA p, for r inside p.Bounds(): the bounds
\* are r, the Stride is that of p, and Pix runs from the first byte of the
\* top-left pixel of r to the end of p.Pix.
SubImage(p, r) ==
  [rgba |-> p.rgba, minX |-> r.minX, minY |-> r.minY, maxX |-> r.maxX, maxY |-> r.maxY,
   stride |-> p.stride,
   pix |-> SubSeq(p.pix, PixOffset(p, r.minX, r.minY) + 1, Len(p.pix))]

\* The state a constructor leaves: the processor, the heap, the errors made;
\* how is the constructor call that made it.
Born(ip, h, n, tr, how) == [ip |-> ip, heap |-> h, nerr |-> n, trail |-> tr, how |-> how]

NewCall(img) == [name |-> "New", args |-> [img |-> img]]
NewWithOptsCall(img, opts) ==
  [name |-> "NewWithPerformanceOptions", args |-> [img |-> img, opts |-> opts]]
FromBytesCall(data) == [name |-> "FromBytes", args |-> [data |-> data]]

\* A New without the check for a nil image.
NewUnchecked(img) ==
  Born(Processor(IF img = <<>> THEN NilImage ELSE 1, NoErr, DefaultPerformanceOptions),
       img, 0, <<>>, NewCall(img))

New(img) ==
  IF img = <<>>
  THEN Born(Processor(NilImage, Errorf("initial image cannot be nil", 1, <<>>),
                      ZeroPerformanceOptions),
            <<>>, 1, <<Errorf("initial image cannot be nil", 1, <<>>)>>, NewCall(img))
  ELSE Born(Processor(1, NoErr, DefaultPerformanceOptions), img, 0, <<>>, NewCall(img))

NewWithPerformanceOptions(img, opts) ==
  IF img = <<>>
  THEN Born(Processor(NilImage, Errorf("initial image cannot be nil", 1, <<>>),
                      ZeroPerformanceOptions),
            <<>>, 1, <<Errorf("initial image cannot be nil", 1, <<>>)>>,
            NewWithOptsCall(img, opts))
  ELSE Born(Processor(1, NoErr, opts), img, 0, <<>>, NewWithOptsCall(img, opts))

\* A FromBytes that hands every byte slice, the empty one too, to the decoder.
FromBytesAlwaysDecodes(data) ==
  IF data.img = <<>>
  THEN Born(Processor(NilImage, Errorf("failed to decode image", 1, <<>>),
                      ZeroPerformanceOptions),
            <<>>, 1, <<Errorf("failed to decode image", 1, <<>>)>>, FromBytesCall(data))
  ELSE Born(Processor(1, NoErr, DefaultPerformanceOptions), data.img, 0, <<>>,
            FromBytesCall(data))

\* A FromBytes that drops the error of the decoder.
FromBytesDropsDecodeError(data) ==
  IF data.len = 0
  THEN Born(Processor(NilImage, Errorf("input byte slice is empty", 1, <<>>),
                      ZeroPerformanceOptions),
            <<>>, 1, <<Errorf("input byte slice is empty", 1, <<>>)>>, FromBytesCall(data))
  ELSE Born(Processor(IF data.img = <<>> THEN NilImage ELSE 1, NoErr,
                      DefaultPerformanceOptions),
            data.img, 0, <<>>, FromBytesCall(data))

\* data.len is len(data); data.img is what decodeImage makes of it (nothing
\* when the bytes are no image).
FromBytes(data) ==
  IF data.len = 0
  THEN Born(Processor(NilImage, Errorf("input byte slice is empty", 1, <<>>),
                      ZeroPerformanceOptions),
            <<>>, 1, <<Errorf("input byte slice is empty", 1, <<>>)>>, FromBytesCall(data))
  ELSE IF data.img = <<>>
  THEN Born(Processor(NilImage, Errorf("failed to decode image", 1, <<>>),
                      ZeroPerformanceOptions),
            <<>>, 1, <<Errorf("failed to decode image", 1, <<>>)>>, FromBytesCall(data))
  ELSE Born(Processor(1, NoErr, DefaultPerformanceOptions), data.img, 0, <<>>,
            FromBytesCall(data))

Opts(maxGoroutines, enable, minSize) ==
  [MaxGoroutines |-> maxGoroutines, EnableParallelProcessing |-> enable,
   MinSizeForParallel |-> minSize]

\* The start of a run: the first processor as born, goroutine t with
\* budget[t] calls to issue out of calls[t].
Start(born, budget, calls) ==
  /\ heap = born.heap
  /\ procs = <<born.ip>>
  /\ locks = <<FreeLock>>
  /\ nerr = born.nerr
  /\ pc = [t \in Callers |-> "idle"]
  /\ call = [t \in Callers |-> NoCall]
  /\ ret = [t \in Callers |-> NoRet]
  /\ left = budget
  /\ menu = calls
  /\ par = [t \in Callers |-> NoPar]
  /\ crashed = FALSE
  /\ trail = <<born.trail>>
  /\ hist = <<{Pair(born.ip)}>>
  /\ oplog = <<[born |-> [born EXCEPT !.trail = <<>>], calls |-> <<>>]>>

Step(t) ==
  \/ \E c \in menu[t], p \in 1..Len(procs) : Lock(t, c, p)
  \/ Locked(t)
  \/ DoCrop(t)
  \/ DoResize(t)
  \/ DoGrayscale(t)
  \/ DoGrayscaleFast(t)
  \/ \E i \in 1..par[t].n : Worker(t, i)
  \/ \E i \in 1..par[t].n : WorkerDone(t, i)
  \/ Join(t)
  \/ DoAddTextWatermark(t)
  \/ DoSetPerformanceOptions(t)
  \/ Unlock(t)
  \/ \E c \in menu[t], p \in 1..Len(procs) : RLock(t, c, p)
  \/ DoImage(t)
  \/ DoImageErr(t)
  \/ DoErr(t)
  \/ DoToBytes(t)
  \/ DoClone(t)
  \/ RUnlock(t)

Next == \E t \in Callers : Step(t)

(***************************************************************************)
(* Spec: one goroutine issues a chain of MaxOps calls, each on the first   *)
(* processor or on a clone of it.                                          *)
(***************************************************************************)
CropCall(x, y, width, height) ==
  [name |-> "Crop", proc |-> 0, args |-> [x |-> x, y |-> y, width |-> width, height |-> height]]
ResizeCall(width, height) ==
  [name |-> "Resize", proc |-> 0, args |-> [width |-> width, height |-> height]]
\* Faces: one with fractional metrics, one with whole-pixel metrics.
FaceFractional == Face(40, 96, 80, 16)
FaceWhole == Face(64, 128, 64, 64)

\* The functional options: each names the fields it sets and their values.
WithFontPath(path) == [name |-> "WithFontPath", value |-> path]
WithFontBytes(data) == [name |-> "WithFontBytes", value |-> data]
WithFontSize(size) == [name |-> "WithFontSize", value |-> size]
WithColor(c) == [name |-> "WithColor", value |-> c]
WithPosition(pos) == [name |-> "WithPosition", value |-> pos]
WithOffset(x, y) == [name |-> "WithOffset", value |-> <<x, y>>]

\* opt(cfg)
ApplyOption(wc, opt) ==
  CASE opt.name = "WithFontPath" -> [wc EXCEPT !.FontPath = opt.value]
    [] opt.name = "WithFontBytes" -> [wc EXCEPT !.FontBytes = opt.value]
    [] opt.name = "WithFontSize" -> [wc EXCEPT !.FontSize = opt.value]
    [] opt.name = "WithColor" -> [wc EXCEPT !.Color = opt.value]
    [] opt.name = "WithPosition" -> [wc EXCEPT !.Position = opt.value]
    [] opt.name = "WithOffset" ->
         [wc EXCEPT !.OffsetX = opt.value[1], !.OffsetY = opt.value[2]]

RECURSIVE ApplyOptionsLastFirst(_, _)
\* The options applied from the last to the first.
ApplyOptionsLastFirst(cfg, options) ==
  IF options = <<>> THEN cfg
  ELSE ApplyOptionsLastFirst(ApplyOption(cfg, options[Len(options)]),
                             SubSeq(options, 1, Len(options) - 1))

RECURSIVE ApplyOptions(_, _)
\* for _, opt := range options { opt(cfg) }
ApplyOptions(cfg, options) ==
  IF options = <<>> THEN cfg
  ELSE ApplyOptions(ApplyOption(cfg, Head(options)), Tail(options))

\* cfg := defaultWatermarkConfig(); cfg.Text = text; then the options.
Configure(text, options) ==
  ApplyOptions([defaultWatermarkConfig EXCEPT !.Text = text], options)

\* opentype.Parse(cfg.FontBytes) belongs to golang.org/x/image: the bytes
\* named "garbage" are no font, every other name is one.
Parses(fontBytes) == fontBytes # "garbage"

\* The face opentype.NewFace builds of the parsed font at cfg.FontSize:
\* goregular has the fractional metrics, the other font the whole ones,
\* and the metrics grow with the size.
FontFace(fontBytes, size) ==
  LET f == IF fontBytes = "goregular.TTF" THEN FaceFractional ELSE FaceWhole
  IN  Face((f.textWidth * size) \div DefaultFontSize, (f.Height * size) \div DefaultFontSize,
           (f.Ascent * size) \div DefaultFontSize, (f.Descent * size) \div DefaultFontSize)

\* AddTextWatermark(text, options...): the configuration the call builds of
\* its options, the font it parses and the face it draws with.
WatermarkOptionsCall(text, options, faceBuilds) ==
  LET cfg == Configure(text, options)
  IN  [name |-> "AddTextWatermark", proc |-> 0,
       args |-> [text |-> text, options |-> options,
                 fontParses |-> Parses(cfg.FontBytes), faceBuilds |-> faceBuilds,
                 cfg |-> cfg, face |-> FontFace(cfg.FontBytes, cfg.FontSize)]]

\* AddTextWatermark("wm", WithPosition(position), WithOffset(offsetX, offsetY))
WatermarkAtCall(position, offsetX, offsetY, face) ==
  [name |-> "AddTextWatermark", proc |-> 0,
   args |-> [text |-> "wm", fontParses |-> TRUE, faceBuilds |-> TRUE,
             cfg |-> [WatermarkConfig(position, offsetX, offsetY) EXCEPT !.Text = "wm"],
             face |-> face]]

\* AddTextWatermark(text) and options for the font: the default position
\* and offsets.
WatermarkCall(text, fontParses, faceBuilds) ==
  [name |-> "AddTextWatermark", proc |-> 0,
   args |-> [text |-> text, fontParses |-> fontParses, faceBuilds |-> faceBuilds,
             cfg |-> [defaultWatermarkConfig EXCEPT !.Text = text], face |-> FaceFractional]]
SetOptsCall(opts) ==
  [name |-> "SetPerformanceOptions", proc |-> 0, args |-> [opts |-> opts]]
ToBytesCall(format) == [name |-> "ToBytes", proc |-> 0, args |-> [format |-> format]]
PlainCall(name) == [name |-> name, proc |-> 0, args |-> <<>>]

ChainMenu ==
  {CropCall(0, 0, 1, 1), CropCall(1, 1, 1, 1), CropCall(0, 0, 0, 1), CropCall(1, 0, 1, -1),
   CropCall(1, 0, 2, 1), CropCall(-1, 0, 1, 1),
   ResizeCall(1, 2), ResizeCall(0, 0), ResizeCall(2, 1), ResizeCall(1, -1),
   PlainCall("Grayscale"), PlainCall("GrayscaleFast"),
   WatermarkCall("wm", TRUE, TRUE), WatermarkCall("", TRUE, TRUE),
   WatermarkCall("wm", FALSE, TRUE), WatermarkCall("wm", TRUE, FALSE),
   WatermarkCall("", FALSE, FALSE),
   SetOptsCall(Opts(1, TRUE, 0)), SetOptsCall(Opts(0, TRUE, 2)), SetOptsCall(Opts(8, FALSE, 0)),
   SetOptsCall(Opts(2, TRUE, 4)),
   PlainCall("Image"), PlainCall("Err"), PlainCall("Clone"),
   ToBytesCall(FormatPNG), ToBytesCall(FormatJPEG), ToBytesCall(FormatGIF),
   ToBytesCall(FormatUnknown), ToBytesCall(FormatGIF + 1)}

ChainImages ==
  {SourceImage(TRUE, 0, 0, MaxW, MaxH, 0),
   SourceImage(TRUE, 0, 0, 1, 1, 0),
   SourceImage(FALSE, 0, 0, MaxW, 2, 0),
   SourceImage(TRUE, 1, 0, 2, 2, 4),
   SubImage(SourceImage(TRUE, 0, -1, 2, MaxH, 0), Rect(1, -1, 2, 1)),
   SourceImage(TRUE, 0, 0, MaxW, 0, 0)}

ChainBorn ==
  {New(<<img>>) : img \in ChainImages}
  \cup {NewWithPerformanceOptions(<<img>>, Opts(2, TRUE, 1)) : img \in ChainImages}
  \cup {New(<<>>), FromBytes([len |-> 0, img |-> <<>>]), FromBytes([len |-> 1, img |-> <<>>])}
  \cup {NewWithPerformanceOptions(<<>>, Opts(2, TRUE, 1))}
  \cup {FromBytes([len |-> 1, img |-> <<SourceImage(FALSE, 0, 0, 2, 2, 0)>>])}

Init ==
  \E born \in ChainBorn :
     Start(born, [t \in Callers |-> IF t = 1 THEN MaxOps ELSE 0],
           [t \in Callers |-> IF t = 1 THEN ChainMenu ELSE {}])

Spec == Init /\ [][Next]_vars

(***************************************************************************)
(* SpecMark: one goroutine draws up to MaxOps watermarks, at each of the   *)
(* five positions and at one outside them, with offsets and metrics that   *)
(* are whole pixels and that are not, and reads the image.                 *)
(***************************************************************************)
MarkMenu ==
  {WatermarkAtCall(position, 32, 64, FaceFractional) :
     position \in PositionTopLeft..(PositionCenter + 1)}
  \cup {WatermarkAtCall(PositionTopLeft, 64, 0, FaceWhole),
        WatermarkAtCall(PositionBottomRight, 0, 0, FaceWhole),
        WatermarkCall("wm", TRUE, TRUE), WatermarkCall("", TRUE, TRUE),
        PlainCall("Image")}

InitMark ==
  \E img \in ChainImages :
     Start(New(<<img>>), [t \in Callers |-> IF t = 1 THEN MaxOps ELSE 0],
           [t \in Callers |-> IF t = 1 THEN MarkMenu ELSE {}])

StepMark(t) ==
  \/ \E c \in menu[t], p \in 1..Len(procs) : Lock(t, c, p)
  \/ Locked(t)
  \/ DoAddTextWatermark(t)
  \/ Unlock(t)
  \/ \E c \in menu[t], p \in 1..Len(procs) : RLock(t, c, p)
  \/ DoImage(t)
  \/ DoImageErr(t)
  \/ RUnlock(t)

NextMark == \E t \in Callers : StepMark(t)

SpecMark == InitMark /\ [][NextMark]_vars

(***************************************************************************)
(* SpecOpts: two AddTextWatermark calls in a row, each with a list of      *)
(* options: lists that set a field twice, in either order, lists with a    *)
(* font path, with font bytes, with both.                                  *)
(***************************************************************************)
OptionLists ==
  {<<>>,
   <<WithPosition(PositionTopLeft), WithPosition(PositionCenter)>>,
   <<WithPosition(PositionCenter), WithPosition(PositionTopLeft)>>,
   <<WithOffset(32, 64), WithPosition(PositionTopLeft), WithOffset(64, 0)>>,
   <<WithFontPath("/no/such/font.ttf")>>,
   <<WithFontPath("/fonts/other.ttf"), WithPosition(PositionTopLeft), WithOffset(0, 0)>>,
   <<WithFontBytes("other.ttf"), WithPosition(PositionTopLeft), WithOffset(0, 0)>>,
   <<WithFontBytes("garbage"), WithFontBytes("other.ttf")>>,
   <<WithFontBytes("other.ttf"), WithFontPath("/fonts/x.ttf"), WithFontBytes("garbage")>>,
   <<WithFontSize(2 * DefaultFontSize), WithColor(<<255, 255, 0, 200>>),
     WithFontSize(DefaultFontSize)>>,
   <<WithColor(<<255, 255, 0, 200>>), WithPosition(PositionTopLeft), WithOffset(0, 0),
     WithFontSize(2 * DefaultFontSize), WithColor(<<0, 0, 0, 255>>)>>}

OptsMenu ==
  {WatermarkOptionsCall("wm", options, TRUE) : options \in OptionLists}
  \cup {WatermarkOptionsCall("", <<WithFontBytes("garbage")>>, TRUE),
        WatermarkOptionsCall("wm", <<WithFontSize(0)>>, FALSE),
        PlainCall("Image")}

InitOpts ==
  \E img \in {SourceImage(TRUE, 0, 0, MaxW, MaxH, 0), SourceImage(TRUE, 1, 0, 2, 2, 4)} :
     Start(New(<<img>>), [t \in Callers |-> IF t = 1 THEN 2 ELSE 0],
           [t \in Callers |-> IF t = 1 THEN OptsMenu ELSE {}])

SpecOpts == InitOpts /\ [][NextMark]_vars

(***************************************************************************)
(* SpecFmt: one goroutine calls the package's format-name functions, which  *)
(* take no lock and touch no processor: FormatFromString on a spelling of   *)
(* at most MaxLen runes, or f.String() and then FormatFromString on the     *)
(* string it returned.                                                     *)
(***************************************************************************)
MaxLen == 4        \* longest spelling passed to FormatFromString

Alphabet == {"j", "J", "p", "P", "e", "E", "g", "G", "n", "N", "i", "I", "U+0130",
             "f", "F"}

Spellings == UNION {[1..n -> Alphabet] : n \in 0..MaxLen}

StringCall(f) == [name |-> "String", proc |-> 0, args |-> [f |-> f]]
FormatFromStringCall(s, of) ==
  [name |-> "FormatFromString", proc |-> 0, args |-> [s |-> s, of |-> of]]

NoFormat == 0 - 1    \* the argument of FormatFromString is no f.String()

FmtMenu == {StringCall(f) : f \in ImageFormats} \cup {PlainCall("FormatFromString")}

\* f.String(), the argument of the FormatFromString call to come.
DoString(t, c) ==
  /\ ~crashed
  /\ pc[t] = "idle" /\ left[t] > 0
  /\ c \in menu[t] /\ c.name = "String"
  /\ call' = [call EXCEPT ![t] = c]
  /\ ret' = [ret EXCEPT ![t] = [str |-> String(c.args.f)]]
  /\ left' = [left EXCEPT ![t] = @ - 1]
  /\ pc' = [pc EXCEPT ![t] = "arg"]
  /\ UNCHANGED <<heap, procs, locks, nerr, menu, par, crashed, trail, hist, oplog>>

\* FormatFromString(s) on a spelling the caller wrote.
DoFormatFromString(t) ==
  /\ ~crashed
  /\ pc[t] = "idle" /\ left[t] > 0
  /\ PlainCall("FormatFromString") \in menu[t]
  /\ \E s \in Spellings :
        /\ call' = [call EXCEPT ![t] = FormatFromStringCall(s, NoFormat)]
        /\ ret' = [ret EXCEPT ![t] = [format |-> FormatFromString(s)]]
  /\ left' = [left EXCEPT ![t] = @ - 1]
  /\ UNCHANGED <<heap, procs, locks, nerr, pc, menu, par, crashed, trail, hist, oplog>>

\* FormatFromString(f.String())
DoFormatFromStringOfString(t) ==
  /\ ~crashed
  /\ pc[t] = "arg"
  /\ call' = [call EXCEPT ![t] = FormatFromStringCall(ret[t].str, call[t].args.f)]
  /\ ret' = [ret EXCEPT ![t] = [format |-> FormatFromString(ret[t].str)]]
  /\ pc' = [pc EXCEPT ![t] = "idle"]
  /\ UNCHANGED <<heap, procs, locks, nerr, left, menu, par, crashed, trail, hist, oplog>>

InitFmt ==
  Start(New(<<SourceImage(TRUE, 0, 0, 1, 1, 0)>>), [t \in Callers |-> IF t = 1 THEN 1 ELSE 0],
        [t \in Callers |-> IF t = 1 THEN FmtMenu ELSE {}])

StepFmt(t) ==
  \/ \E c \in menu[t] : DoString(t, c)
  \/ DoFormatFromString(t)
  \/ DoFormatFromStringOfString(t)

NextFmt == \E t \in Callers : StepFmt(t)

SpecFmt == InitFmt /\ [][NextFmt]_vars

(***************************************************************************)
(* SpecPar: one GrayscaleFast call on every kind of source image under     *)
(* every worker-count configuration, at the grain of the worker            *)
(* goroutines, while a second goroutine reads the same processor.          *)
(***************************************************************************)
ParImages ==
  {SourceImage(TRUE, ox, oy, w, h, pad) :
     ox \in {0, 1}, oy \in {-1, 0}, w \in 0..MaxW, h \in 0..MaxH, pad \in {0, 4}}
  \cup {SourceImage(FALSE, ox, oy, w, h, 0) :
     ox \in {0, 1}, oy \in {-1, 0}, w \in 0..MaxW, h \in 0..MaxH}

ParOpts ==
  {Opts(g, TRUE, m) : g \in {-1, 0, 1, 2, 4, 8}, m \in {0, 2}} \cup {Opts(2, FALSE, 0)}

ParReads == {PlainCall("Image"), PlainCall("Clone"), ToBytesCall(FormatPNG)}

InitPar ==
  \E img \in ParImages, opts \in ParOpts :
     Start(NewWithPerformanceOptions(<<img>>, opts),
           [t \in Callers |-> IF t \in {1, 2} THEN 1 ELSE 0],
           [t \in Callers |-> IF t = 1 THEN {PlainCall("GrayscaleFast")}
                              ELSE IF t = 2 THEN ParReads ELSE {}])

StepPar(t) ==
  \/ \E c \in menu[t], p \in 1..Len(procs) : Lock(t, c, p)
  \/ Locked(t)
  \/ DoGrayscaleFast(t)
  \/ \E i \in 1..par[t].n : Worker(t, i)
  \/ \E i \in 1..par[t].n : WorkerDone(t, i)
  \/ Join(t)
  \/ Unlock(t)
  \/ \E c \in menu[t], p \in 1..Len(procs) : RLock(t, c, p)
  \/ DoImage(t)
  \/ DoImageErr(t)
  \/ DoToBytes(t)
  \/ DoClone(t)
  \/ RUnlock(t)

NextPar == \E t \in Callers : StepPar(t)

SpecPar == InitPar /\ [][NextPar]_vars

\* The Go scheduler runs every runnable goroutine: each caller, with the
\* workers it spawned, keeps taking the steps it can take.
FairPar == \A t \in Callers : WF_vars(StepPar(t))

SpecParFair == SpecPar /\ FairPar

(***************************************************************************)
(* SpecConc: three goroutines share the first processor and its clones.    *)
(* Goroutine 1 issues two write calls, goroutine 2 two read calls (Clone   *)
(* among them) and goroutine 3 one call, a read or a failing Crop, each on *)
(* any processor alive at the time of the call.                            *)
(***************************************************************************)
ConcWrites ==
  {CropCall(0, 0, 1, 1), CropCall(0, 0, 0, 1), ResizeCall(1, 2),
   PlainCall("Grayscale"), PlainCall("GrayscaleFast"),
   WatermarkCall("", TRUE, TRUE), SetOptsCall(Opts(8, FALSE, 0))}

ConcReads == {PlainCall("Clone"), PlainCall("Image"), ToBytesCall(FormatPNG)}

ConcImages == {SourceImage(TRUE, 0, 0, 1, 2, 0)}

InitConc ==
  \E img \in ConcImages :
     Start(NewWithPerformanceOptions(<<img>>, Opts(2, TRUE, 2)),
           [t \in Callers |-> IF t \in {1, 2} THEN 2 ELSE 1],
           [t \in Callers |-> IF t = 1 THEN ConcWrites
                              ELSE IF t = 2 THEN ConcReads
                              ELSE {PlainCall("Image"), PlainCall("Err"),
                                    CropCall(0, 0, 0, 1)}])

SpecConc == InitConc /\ [][Next]_vars

(***************************************************************************)
(* Properties.                                                             *)
(***************************************************************************)
Transforms == {"Crop", "Resize", "Grayscale", "GrayscaleFast", "AddTextWatermark"}

\* The goroutine is in a write call, between Lock and the return.
InWrite(t) == pc[t] \in {"lock", "cs", "wait", "unlock", "unwind"}
\* The goroutine holds the writer lock.
HoldsLock(t) == pc[t] \in {"cs", "wait", "unlock", "unwind"}
\* The goroutine holds the reader lock.
HoldsRLock(t) == pc[t] \in {"rcs", "rcs2", "runlock"}

\* C1: sticky error.  While a transform (Crop, Resize, Grayscale,
\* GrayscaleFast, AddTextWatermark; any arguments) runs on a processor that
\* already holds a latched error, every step leaves that processor's error
\* (the same error value) and its current buffer reference unchanged.
C1_StickyError ==
  [][\A t \in Callers :
       (InWrite(t) /\ call[t].name \in Transforms /\ procs[call[t].proc].err # NoErr)
         => /\ procs'[call[t].proc].err = procs[call[t].proc].err
            /\ procs'[call[t].proc].currentImage = procs[call[t].proc].currentImage]_vars

\* A Crop that would itself have failed has run to its end on a processor
\* that had latched another error before.
C1_Witness ==
  \E t \in Callers :
     /\ pc[t] = "unlock" /\ call[t].name = "Crop"
     /\ LET tr == trail[call[t].proc]
        IN  /\ Len(tr) >= 2
            /\ tr[Len(tr)] # NoErr
            /\ \E i \in 1..(Len(tr) - 1) : tr[i] # NoErr /\ tr[i].kind # tr[Len(tr)].kind

\* The error of the earliest call of a trail that failed, NoErr if none did.
FirstFailure(tr) ==
  IF \E i \in 1..Len(tr) : tr[i] # NoErr
  THEN tr[CHOOSE i \in 1..Len(tr) : tr[i] # NoErr /\ \A j \in 1..(i - 1) : tr[j] = NoErr]
  ELSE NoErr

\* C2: first error wins.  After any chain of calls, the latched error of a
\* processor is the error of the earliest call of the chain that failed (nil
\* if none failed), whatever later calls would have failed with, and Err()
\* returns that error.
C2_FirstErrorWins ==
  /\ \A p \in 1..Len(procs) : procs[p].err = FirstFailure(trail[p])
  /\ \A t \in Callers :
       (pc[t] = "runlock" /\ call[t].name = "Err")
         => ret[t].err = FirstFailure(trail[call[t].proc])

\* Two calls of one chain would have failed, with different errors.
C2_Witness ==
  \E p \in 1..Len(procs) :
     \E i, j \in 1..Len(trail[p]) :
        /\ i < j
        /\ trail[p][i] # NoErr /\ trail[p][j] # NoErr
        /\ trail[p][i].kind # trail[p][j].kind
        /\ procs[p].err = trail[p][i]

\* C3: for every buffer and every worker-count configuration, a
\* GrayscaleFast call that takes the parallel path runs to its end and
\* leaves a buffer identical, byte for byte and in its bounds, to the one
\* the sequential Grayscale makes of the same source.
C3_ParallelEqualsSequential ==
  \A t \in Callers :
     call[t].name = "GrayscaleFast"
       => /\ par[t].n > 0 => ~crashed
          /\ pc[t] # "unwind"
          /\ (pc[t] = "unlock" /\ par[t].n > 0)
               => /\ procs[call[t].proc].currentImage = par[t].dst
                  /\ heap[par[t].dst] = grayscaleSequential(heap[par[t].src])

\* The strip of worker i (goroutineID i-1) of a fork: rows first..last-1.
StripStart(pr, i) == StartRow(i - 1, pr.rows)
StripEnd(pr, i) == WorkerEnd(pr, i, Dy(heap[pr.dst]))

\* C4: the strips of a parallel grayscale are contiguous and ordered by
\* worker index; workers 0..n-2 get floor(height/n) rows each, the last one
\* floor(height/n) plus the remainder; every row 0..height-1 lies in exactly
\* one strip; and a worker only ever stands on rows of its own strip.
C4_StripsPartitionRows ==
  \A t \in Callers :
     par[t].n > 0 =>
       LET pr == par[t]
           n == pr.n
           height == Dy(heap[pr.dst])
       IN  /\ StripStart(pr, 1) = 0
           /\ StripEnd(pr, n) = height
           /\ \A i \in 1..(n - 1) :
                /\ StripEnd(pr, i) = StripStart(pr, i + 1)
                /\ StripEnd(pr, i) - StripStart(pr, i) = height \div n
           /\ StripEnd(pr, n) - StripStart(pr, n) = (height \div n) + (height % n)
           /\ \A r \in 0..(height - 1) :
                Cardinality({i \in 1..n : StripStart(pr, i) <= r /\ r < StripEnd(pr, i)}) = 1
           /\ \A i \in 1..n :
                /\ StripStart(pr, i) <= pr.w[i].y /\ pr.w[i].y <= StripEnd(pr, i)
                /\ (pr.w[i].state = "done" /\ Dx(heap[pr.dst]) > 0)
                     => pr.w[i].y = StripEnd(pr, i)

\* Two workers share a height that their number does not divide, and the
\* last one has finished its longer strip.
C4_Witness ==
  \E t \in Callers :
     /\ par[t].n = 2
     /\ Dy(heap[par[t].dst]) % 2 = 1
     /\ par[t].w[2].state = "done"
     /\ par[t].w[2].wrote # {}
     /\ pc[t] = "unlock"

\* C5: under every interleaving of the workers of a parallel grayscale, no
\* two workers write the same byte of the destination buffer, and each
\* worker writes only bytes of rows of its own strip.
C5_WorkersWriteOwnStrip ==
  \A t \in Callers :
     par[t].n > 0 =>
       LET pr == par[t]
           dst == heap[pr.dst]
       IN  /\ \A i, j \in 1..pr.n : i # j => pr.w[i].wrote \cap pr.w[j].wrote = {}
           /\ \A i \in 1..pr.n : \A b \in pr.w[i].wrote :
                /\ StripStart(pr, i) <= b \div dst.stride
                /\ b \div dst.stride < StripEnd(pr, i)

\* C6: while a worker of a parallel grayscale has not completed, the
\* destination buffer is the current buffer of no processor (so neither
\* Image, ToBytes nor Clone can reach it) and no call has returned it.
C6_InstallAfterJoin ==
  \A t \in Callers :
     (par[t].n > 0 /\ \E i \in 1..par[t].n : par[t].w[i].state = "run")
       => /\ \A p \in 1..Len(procs) : procs[p].currentImage # par[t].dst
          /\ \A u \in Callers : ret[u].img # par[t].dst

\* A reader waits on the lock while one worker has written part of the
\* destination and another has finished.
C6_Witness ==
  \E t \in Callers :
     /\ par[t].n >= 2
     /\ \E i, j \in 1..par[t].n :
          /\ par[t].w[i].state = "run" /\ par[t].w[i].wrote # {}
          /\ par[t].w[j].state = "done"
     /\ \E u \in Callers : pc[u] = "rblocked" /\ call[u].proc = call[t].proc

\* The buffers a processor holds or has held, and those Image() has returned.
Published ==
  ({pair[1] : pair \in UNION {hist[p] : p \in 1..Len(procs)}}
     \cup {ret[u].img : u \in Callers}) \ {NilImage}

\* C7: clone independence.  A processor and its clone are two processors:
\* Clone returns a processor other than the one it was called on, and no
\* step of a call on one processor (a write of any kind, succeeding,
\* failing or panicking, with reads of the other processor under way)
\* changes the buffer reference, the error or the bytes of the current
\* buffer of another processor.
C7_CloneIndependence ==
  [][/\ \A u \in Callers :
          (pc'[u] = "runlock" /\ call'[u].name = "Clone")
            => /\ ret'[u].proc # call'[u].proc
               /\ ret'[u].proc \in 1..Len(procs')
      /\ \A r \in 1..Len(procs) :
          (\A t \in Callers : (HoldsLock(t) /\ call[t].name \in WriteOps) => call[t].proc # r)
            => /\ procs'[r].currentImage = procs[r].currentImage
               /\ procs'[r].err = procs[r].err
               /\ procs[r].currentImage # NilImage
                    => heap'[procs[r].currentImage] = heap[procs[r].currentImage]]_vars

\* A write has changed one processor while a reader is inside another one,
\* which still holds the buffer and the nil error both started from; and
\* writes were issued on the clone as well as on the original.
C7_Witness ==
  \E t, u \in Callers : \E q, r \in 1..Len(procs) :
     /\ q # r
     /\ pc[t] = "unlock" /\ call[t].proc = q /\ call[t].name \in WriteOps
     /\ HoldsRLock(u) /\ call[u].proc = r
     /\ Cardinality(hist[q]) >= 2
     /\ Pair(procs[q]) # Pair(procs[r])
     /\ Pair(procs[r]) = <<1, NoErr>>

\* C8: no in-place writes.  A buffer that is or was the current buffer of a
\* processor, or that Image() has returned, keeps its bytes and its bounds
\* in every step; the only buffer a step writes to is the destination
\* the running call allocated and has not yet installed.
C8_NoInPlaceWrites ==
  [][/\ \A b \in Published : heap'[b] = heap[b]
     /\ \A b \in 1..Len(heap) :
          heap'[b] # heap[b]
            => \E t \in Callers :
                  /\ pc[t] = "wait" /\ par[t].dst = b
                  /\ call[t].name = "GrayscaleFast"
                  /\ procs[call[t].proc].currentImage # b]_vars

\* A transform has succeeded on a processor whose earlier buffer a clone
\* still holds.
C8_Witness ==
  \E t \in Callers : \E r \in 1..Len(procs) :
     /\ pc[t] = "unlock" /\ call[t].name \in Transforms
     /\ r # call[t].proc
     /\ procs[r].currentImage # NilImage
     /\ procs[call[t].proc].currentImage # procs[r].currentImage
     /\ <<procs[r].currentImage, NoErr>> \in hist[call[t].proc]
     /\ procs[call[t].proc].err = NoErr

\* C9: locking discipline.  While a write call on a processor is between
\* the return of Lock and its own return, no other goroutine is inside a
\* write call or inside the critical section of a read call (Image, Err,
\* ToBytes, Clone) on that processor.
C9_LockingDiscipline ==
  \A t \in Callers :
     (HoldsLock(t) /\ call[t].name \in WriteOps)
       => \A u \in Callers \ {t} :
             call[u].proc = call[t].proc => (~HoldsLock(u) /\ ~HoldsRLock(u))

\* Two read calls are inside their critical sections on one processor at
\* the same time, and a write call on it waits for them in Lock.
C9_Witness ==
  \E t, u, v \in Callers :
     /\ u # v
     /\ HoldsRLock(u) /\ HoldsRLock(v)
     /\ call[u].proc = call[v].proc
     /\ pc[t] = "lock" /\ call[t].proc = call[u].proc

\* C10: Image() returns an atomic snapshot.  The (buffer, error) pair an
\* Image() call returns is a pair the processor held at its construction or
\* after a complete write call, and the buffer is not one that workers of a
\* parallel grayscale are still writing.
C10_ImageSnapshot ==
  \A u \in Callers :
     (pc[u] \in {"runlock", "idle"} /\ call[u].name = "Image")
       => /\ <<ret[u].img, ret[u].err>> \in hist[call[u].proc]
          /\ \A t \in Callers :
               (par[t].n > 0 /\ ret[u].img = par[t].dst)
                 => \A i \in 1..par[t].n : par[t].w[i].state = "done"

\* An Image() call is about to return between two write calls on its
\* processor: one has completed and changed the processor, the next one
\* waits in Lock.
C10_Witness ==
  \E t, u \in Callers :
     /\ pc[u] = "runlock" /\ call[u].name = "Image"
     /\ pc[t] = "lock" /\ call[t].proc = call[u].proc
     /\ Cardinality(hist[call[u].proc]) >= 2
     /\ <<ret[u].img, ret[u].err>> = Pair(procs[call[u].proc])

\* One write call run from start to end on the state st.
Apply(st, c) ==
  IF c.name = "GrayscaleFast" THEN GrayscaleFast([st EXCEPT !.panic = "", !.dot = NoDot])
  ELSE Run([st EXCEPT !.panic = "", !.dot = NoDot], c)

RECURSIVE Replay(_, _)
\* The calls of a log run one after another.
Replay(st, calls) ==
  IF calls = <<>> THEN st ELSE Replay(Apply(st, Head(calls).c), Tail(calls))

\* The processor p started as, after the calls of its log run one by one.
SerialState(p) ==
  Replay([heap |-> oplog[p].born.heap, ip |-> oplog[p].born.ip,
          nerr |-> oplog[p].born.nerr, panic |-> "", dot |-> NoDot],
         oplog[p].calls)

\* What a state shows of its processor: the buffer (bounds and bytes), the
\* error (message and values) and the configuration.
Observable(st) ==
  [img  |-> IF st.ip.currentImage = NilImage THEN <<>> ELSE <<st.heap[st.ip.currentImage]>>,
   err  |-> <<st.ip.err.kind, st.ip.err.info>>,
   opts |-> st.ip.perfOpts]

\* C11: concurrent write calls on one processor are serialized.  At every
\* moment the buffer, error and configuration of a processor are those that
\* the write calls completed on it so far produce when run one after
\* another, in an order that keeps the calls of each goroutine in the order
\* the goroutine issued them.
C11_WritesSerialized ==
  \A p \in 1..Len(procs) :
     /\ Observable(StateOf(p)) = Observable(SerialState(p))
     /\ \A i, j \in 1..Len(oplog[p].calls) :
          (i < j /\ oplog[p].calls[i].t = oplog[p].calls[j].t)
            => oplog[p].calls[i].k > oplog[p].calls[j].k

\* Three write calls of two goroutines have run on one processor, the call
\* of one goroutine between the two calls of the other, and they changed it.
C11_Witness ==
  \E p \in 1..Len(procs) :
     LET calls == oplog[p].calls
     IN  /\ Len(calls) >= 3
         /\ calls[Len(calls)].t # calls[Len(calls) - 1].t
         /\ calls[Len(calls)].t = calls[Len(calls) - 2].t
         /\ procs[p].currentImage # oplog[p].born.ip.currentImage
         /\ procs[p].err # NoErr

\* The goroutine t runs the body of its write call in this step.
BodyStep(t) == pc[t] = "cs" /\ pc'[t] # "cs"

\* C12: a Crop or Resize with width <= 0 or height <= 0, called on a
\* processor that holds an image and no error, latches the error "crop
\* (resize) dimensions must be positive" with the two values, returns
\* without a panic and leaves the current buffer reference as it was.
C12_InvalidDimensions ==
  [][\A t \in Callers :
       (/\ BodyStep(t)
        /\ call[t].name \in {"Crop", "Resize"}
        /\ procs[call[t].proc].err = NoErr
        /\ procs[call[t].proc].currentImage # NilImage
        /\ (call[t].args.width <= 0 \/ call[t].args.height <= 0))
         => /\ pc'[t] = "unlock"
            /\ procs'[call[t].proc].err.kind =
                 (IF call[t].name = "Crop" THEN "crop dimensions must be positive"
                  ELSE "resize dimensions must be positive")
            /\ procs'[call[t].proc].err.info = <<call[t].args.width, call[t].args.height>>
            /\ procs'[call[t].proc].currentImage = procs[call[t].proc].currentImage
            /\ heap' = heap]_vars

\* A Crop with a negative height, whose rectangle is also outside the
\* image, has run on a processor that held an image and no error.
C12_Witness ==
  \E t \in Callers :
     /\ pc[t] = "unlock" /\ call[t].name = "Crop"
     /\ call[t].args.height < 0 /\ call[t].args.width > 0
     /\ Cardinality(hist[call[t].proc]) = 2
     /\ procs[call[t].proc].currentImage # NilImage
     /\ procs[call[t].proc].err.kind = "crop dimensions must be positive"

\* C13: a Crop(x, y, w, h) with w > 0 and h > 0, called on a processor that
\* holds an image and no error, succeeds (no error, a new current buffer)
\* exactly when minX <= x, x + w <= maxX, minY <= y and y + h <= maxY for
\* the bounds of the current image; otherwise it latches "crop rectangle is
\* out of image bounds" and leaves the current buffer, reference and
\* contents, as it was.  It never panics.
C13_CropBounds ==
  [][\A t \in Callers :
       (/\ BodyStep(t)
        /\ call[t].name = "Crop"
        /\ procs[call[t].proc].err = NoErr
        /\ procs[call[t].proc].currentImage # NilImage
        /\ call[t].args.width > 0 /\ call[t].args.height > 0)
         => LET p   == call[t].proc
                cur == procs[p].currentImage
                b   == heap[cur]
                a   == call[t].args
            IN  /\ pc'[t] = "unlock"
                /\ IF /\ b.minX <= a.x /\ a.x + a.width <= b.maxX
                      /\ b.minY <= a.y /\ a.y + a.height <= b.maxY
                   THEN /\ procs'[p].err = NoErr
                        /\ procs'[p].currentImage # cur
                        /\ procs'[p].currentImage # NilImage
                   ELSE /\ procs'[p].err.kind = "crop rectangle is out of image bounds"
                        /\ procs'[p].currentImage = cur
                        /\ heap' = heap]_vars

\* A Crop whose rectangle ends on the right and bottom edge of the image has
\* succeeded as the first call on its processor.
C13_Witness ==
  \E t \in Callers :
     /\ pc[t] = "unlock" /\ call[t].name = "Crop"
     /\ Len(oplog[call[t].proc].calls) = 1
     /\ procs[call[t].proc].err = NoErr
     /\ procs[call[t].proc].currentImage # 1
     /\ call[t].args.x > 0 /\ call[t].args.y > 0
     /\ call[t].args.x + call[t].args.width = heap[1].maxX
     /\ call[t].args.y + call[t].args.height = heap[1].maxY

\* The goroutine t completes a Crop in this step that succeeds on a
\* processor holding an image and no error.
CropSucceeds(t) ==
  /\ BodyStep(t)
  /\ call[t].name = "Crop"
  /\ procs[call[t].proc].err = NoErr
  /\ procs[call[t].proc].currentImage # NilImage
  /\ procs'[call[t].proc].err = NoErr
  /\ pc'[t] = "unlock"

\* C14 as claimed: after a successful Crop(x, y, w, h) the buffer is w wide
\* and h high with origin (0, 0), and its pixel (i, j) equals the source
\* pixel (x+i, y+j) in all four channels of the colour.
C14_CropPixelsEqualSource ==
  [][\A t \in Callers :
       CropSucceeds(t)
         => LET a   == call[t].args
                src == heap[procs[call[t].proc].currentImage]
                res == heap'[procs'[call[t].proc].currentImage]
            IN  /\ Bounds(res) = Rect(0, 0, a.width, a.height)
                /\ \A i \in 0..(a.width - 1), j \in 0..(a.height - 1) :
                     AtRGBA(res, i, j) = AtRGBA(src, a.x + i, a.y + j)]_vars

\* C14, amended: after a successful Crop(x, y, w, h) the buffer is an RGBA
\* buffer w wide and h high with origin (0, 0) and rows of 4*w bytes, and
\* each channel of its pixel (i, j) is the high 8 bits of the 16-bit channel
\* of the source pixel (x+i, y+j), alpha included; when the source is an
\* *image.RGBA buffer, that is the source pixel itself.
C14_CropPixelsConverted ==
  [][\A t \in Callers :
       CropSucceeds(t)
         => LET a   == call[t].args
                src == heap[procs[call[t].proc].currentImage]
                res == heap'[procs'[call[t].proc].currentImage]
            IN  /\ Bounds(res) = Rect(0, 0, a.width, a.height)
                /\ res.rgba /\ res.stride = 4 * a.width
                /\ Len(res.pix) = 4 * a.width * a.height
                /\ \A i \in 0..(a.width - 1), j \in 0..(a.height - 1) :
                     /\ \A ch \in 1..4 :
                          At(res, i, j)[ch] = AtRGBA(src, a.x + i, a.y + j)[ch] \div 256
                     /\ src.rgba => At(res, i, j) = At(src, a.x + i, a.y + j)]_vars

\* A Crop away from the top-left corner has succeeded on an image that is
\* no *image.RGBA, and the corner it starts at differs from pixel (0, 0).
C14_Witness ==
  \E t \in Callers :
     /\ pc[t] = "unlock" /\ call[t].name = "Crop"
     /\ Len(oplog[call[t].proc].calls) = 1
     /\ procs[call[t].proc].err = NoErr
     /\ procs[call[t].proc].currentImage # 1
     /\ ~heap[1].rgba
     /\ call[t].args.x > 0 /\ call[t].args.y > 0
     /\ At(heap[1], call[t].args.x, call[t].args.y) # At(heap[1], heap[1].minX, heap[1].minY)
     /\ \A ch \in 1..4 :
          At(heap[procs[call[t].proc].currentImage], 0, 0)[ch] * 256 + 34
            = At(heap[1], call[t].args.x, call[t].args.y)[ch]

\* C15: scheduling independence.  Whatever the interleaving of its workers,
\* a parallel grayscale that reaches its join has made of its source the one
\* destination buffer that the strips written one after the other give, and
\* whether a worker panics depends on the source alone as well.
C15_SchedulingIndependence ==
  \A t \in Callers :
     (call[t].name = "GrayscaleFast" /\ par[t].n > 0)
       => /\ pc[t] = "unlock"
               => /\ heap[par[t].dst] = grayscaleParallelResult(heap[par[t].src])
                  /\ ~ParPanics(heap[par[t].src], newRGBA(Bounds(heap[par[t].src])))
          /\ crashed => ParPanics(heap[par[t].src], newRGBA(Bounds(heap[par[t].src])))

\* Several workers have each written several pixels of a destination that
\* is complete, and not all of its bytes are equal.
C15_Witness ==
  \E t \in Callers :
     /\ pc[t] = "unlock" /\ par[t].n >= 2
     /\ \A i \in 1..par[t].n : Cardinality(par[t].w[i].wrote) >= 8
     /\ \E a, b \in 1..Len(heap[par[t].dst].pix) :
          heap[par[t].dst].pix[a] # heap[par[t].dst].pix[b]
     /\ procs[call[t].proc].currentImage = par[t].dst

\* C16: the worker count of a parallel grayscale is the configured
\* MaxGoroutines, or the number of hardware threads when MaxGoroutines <= 0,
\* and the number of rows when that is smaller; it never exceeds the number
\* of rows, and every worker spawned has at least one row in its strip.
C16_WorkerCount ==
  \A t \in Callers :
     (call[t].name = "GrayscaleFast" /\ par[t].n > 0)
       => LET opts   == procs[call[t].proc].perfOpts
              height == Dy(heap[par[t].dst])
              wanted == IF opts.MaxGoroutines <= 0 THEN NumCPU ELSE opts.MaxGoroutines
          IN  /\ pc[t] = "wait" =>
                   par[t].n = (IF wanted > height THEN height ELSE wanted)
              /\ par[t].n <= height
              /\ Len(par[t].w) = par[t].n
              /\ \A i \in 1..par[t].n : StripEnd(par[t], i) - StripStart(par[t], i) >= 1

\* An image with fewer rows than MaxGoroutines asks for: one worker per row
\* has been spawned, and all of them have finished.
C16_Witness ==
  \E t \in Callers :
     /\ pc[t] = "wait" /\ par[t].n >= 2
     /\ procs[call[t].proc].perfOpts.MaxGoroutines > Dy(heap[par[t].dst])
     /\ par[t].n = Dy(heap[par[t].dst])
     /\ par[t].wg = 0
     /\ \A i \in 1..par[t].n : par[t].w[i].wrote # {}

RECURSIVE LastOptions(_, _)
\* The options of the last SetPerformanceOptions call among calls, opts
\* when there is none.
LastOptions(opts, calls) ==
  IF calls = <<>> THEN opts
  ELSE IF calls[Len(calls)].c.name = "SetPerformanceOptions"
  THEN calls[Len(calls)].c.args.opts
  ELSE LastOptions(opts, SubSeq(calls, 1, Len(calls) - 1))

\* C17: GrayscaleFast, on a processor with an image and no error, forks
\* workers (or fails in the division by a worker count of zero) exactly when
\* EnableParallelProcessing is true and width*height >= MinSizeForParallel
\* in the options most recently set on the processor (those it was made
\* with, when none was set); otherwise it installs, without workers, the
\* buffer the sequential loop makes.
C17_ParallelDispatch ==
  [][\A t \in Callers :
       (/\ BodyStep(t)
        /\ call[t].name = "GrayscaleFast"
        /\ procs[call[t].proc].err = NoErr
        /\ procs[call[t].proc].currentImage # NilImage)
         => LET p    == call[t].proc
                cur  == heap[procs[p].currentImage]
                opts == LastOptions(oplog[p].born.ip.perfOpts, oplog[p].calls)
            IN  IF opts.EnableParallelProcessing
                   /\ Dx(cur) * Dy(cur) >= opts.MinSizeForParallel
                THEN \/ pc'[t] = "wait" /\ par'[t].n > 0 /\ procs'[p] = procs[p]
                     \/ pc'[t] = "unwind" /\ Dy(cur) = 0
                ELSE /\ pc'[t] = "unlock"
                     /\ par'[t].n = 0
                     /\ procs'[p].currentImage = Len(heap')
                     /\ heap'[Len(heap')] = grayscaleSequential(ToRGBA(cur))]_vars

\* GrayscaleFast has forked workers on an image whose area is exactly the
\* MinSizeForParallel that the call before it set.
C17_Witness ==
  \E t \in Callers :
     LET p == call[t].proc
     IN  /\ pc[t] = "wait" /\ call[t].name = "GrayscaleFast"
         /\ Len(oplog[p].calls) = 1
         /\ oplog[p].calls[1].c.name = "SetPerformanceOptions"
         /\ oplog[p].born.ip.perfOpts # procs[p].perfOpts
         /\ Dx(heap[par[t].src]) * Dy(heap[par[t].src]) = procs[p].perfOpts.MinSizeForParallel
         /\ procs[p].perfOpts.MinSizeForParallel > 0

\* The goroutine t installs the result of a grayscale call in this step.
GrayscaleInstalls(t) ==
  /\ pc[t] \in {"cs", "wait"} /\ pc'[t] = "unlock"
  /\ call[t].name \in {"Grayscale", "GrayscaleFast"}
  /\ procs'[call[t].proc].currentImage # procs[call[t].proc].currentImage

\* round(0.2126*R + 0.7152*G + 0.0722*B), to the nearest integer.
RoundedLuminosity(r, g, b) == (2126 * r + 7152 * g + 722 * b + 5000) \div 10000

\* C18 as claimed: for every source pixel (R, G, B, A), Grayscale and
\* GrayscaleFast write round(0.2126*R + 0.7152*G + 0.0722*B), rounded to the
\* nearest integer, into the three colour channels of the destination pixel
\* at the same position.
C18_GrayIsRoundedLuminosity ==
  [][\A t \in Callers :
       GrayscaleInstalls(t)
         => LET src == ToRGBA(heap[procs[call[t].proc].currentImage])
                res == heap'[procs'[call[t].proc].currentImage]
            IN  \A x \in src.minX..(src.maxX - 1), y \in src.minY..(src.maxY - 1) :
                   LET px == At(src, x, y)
                       gray == RoundedLuminosity(px[1], px[2], px[3])
                   IN  /\ At(res, x, y)[1] = gray
                       /\ At(res, x, y)[2] = gray
                       /\ At(res, x, y)[3] = gray]_vars

\* C19 as claimed: after Grayscale or GrayscaleFast every pixel of the
\* result has R = G = B, its alpha equals the alpha of the pixel of the
\* source image at the same position, and the result has the bounds of the
\* source.
C19_GrayPixelsAlphaBounds ==
  [][\A t \in Callers :
       GrayscaleInstalls(t)
         => LET src == heap[procs[call[t].proc].currentImage]
                res == heap'[procs'[call[t].proc].currentImage]
            IN  /\ Bounds(res) = Bounds(src)
                /\ \A x \in src.minX..(src.maxX - 1), y \in src.minY..(src.maxY - 1) :
                      /\ At(res, x, y)[1] = At(res, x, y)[2]
                      /\ At(res, x, y)[2] = At(res, x, y)[3]
                      /\ At(res, x, y)[4] = At(src, x, y)[4]]_vars

\* The call before the one goroutine t is in, on the same processor, was a
\* grayscale call.
AfterGrayscale(t) ==
  LET calls == oplog[call[t].proc].calls
  IN  /\ Len(calls) > 0
      /\ calls[Len(calls)].c.name \in {"Grayscale", "GrayscaleFast"}

\* C20 as claimed: Grayscale (or GrayscaleFast) applied to the result of a
\* grayscale call yields a buffer pixel-identical to that result: every
\* pixel (g, g, g, a) is mapped to (g, g, g, a).
C20_GrayscaleIdempotent ==
  [][\A t \in Callers :
       (GrayscaleInstalls(t) /\ AfterGrayscale(t))
         => LET once  == heap[procs[call[t].proc].currentImage]
                twice == heap'[procs'[call[t].proc].currentImage]
            IN  /\ Bounds(twice) = Bounds(once)
                /\ Pixels(twice) = Pixels(once)]_vars

\* The goroutine t runs the body of Clone in this step.
CloneStep(t) == pc[t] = "rcs" /\ call[t].name = "Clone" /\ pc'[t] = "runlock"

Constructor == oplog[1].born.how

\* No write call has run on the first processor since its construction.
AsConstructed == oplog[1].calls = <<>>

\* C22: New(img) and NewWithPerformanceOptions(img, opts) yield a processor
\* with nil error whose buffer is img when img is not nil, and when img is
\* nil a processor with the nil-input error and no buffer, whose Image()
\* returns a nil image together with that error.
C22_NewReadyOrFailed ==
  (Constructor.name \in {"New", "NewWithPerformanceOptions"} /\ AsConstructed)
    => LET img == Constructor.args.img
       IN  /\ img # <<>>
             => /\ procs[1].err = NoErr
                /\ procs[1].currentImage # NilImage
                /\ heap[procs[1].currentImage] = img[1]
           /\ img = <<>>
             => /\ procs[1].err.kind = "initial image cannot be nil"
                /\ procs[1].currentImage = NilImage
                /\ \A t \in Callers :
                     (pc[t] = "runlock" /\ call[t].name = "Image" /\ call[t].proc = 1)
                       => ret[t].img = NilImage /\ ret[t].err = procs[1].err

\* Image() has returned on a processor that NewWithPerformanceOptions made
\* of a nil image.
C22_Witness ==
  /\ Constructor.name = "NewWithPerformanceOptions" /\ Constructor.args.img = <<>>
  /\ AsConstructed
  /\ \E t \in Callers :
       /\ pc[t] = "runlock" /\ call[t].name = "Image" /\ call[t].proc = 1
       /\ ret[t].img = NilImage /\ ret[t].err # NoErr

\* C23: FromBytes(data) yields a processor with the empty-input error when
\* len(data) = 0 (the error is not the decoder's), a processor with the
\* decode error when the bytes do not decode, and otherwise a processor with
\* nil error that holds the decoded image; in both failure cases the
\* processor holds no buffer.
C23_FromBytes ==
  (Constructor.name = "FromBytes" /\ AsConstructed)
    => LET data == Constructor.args.data
       IN  /\ data.len = 0
             => /\ procs[1].err.kind = "input byte slice is empty"
                /\ procs[1].currentImage = NilImage /\ heap = <<>>
           /\ (data.len > 0 /\ data.img = <<>>)
             => /\ procs[1].err.kind = "failed to decode image"
                /\ procs[1].currentImage = NilImage /\ heap = <<>>
           /\ (data.len > 0 /\ data.img # <<>>)
             => /\ procs[1].err = NoErr
                /\ procs[1].currentImage # NilImage
                /\ heap[procs[1].currentImage] = data.img[1]

\* Err() has returned the empty-input error of a processor that FromBytes
\* made of an empty byte slice.
C23_Witness ==
  /\ Constructor.name = "FromBytes" /\ Constructor.args.data.len = 0
  /\ AsConstructed
  /\ \E t \in Callers :
       /\ pc[t] = "runlock" /\ call[t].name = "Err" /\ call[t].proc = 1
       /\ ret[t].err.kind = "input byte slice is empty"

\* The goroutine t takes a step of a read method: the RLock, a step of the
\* body, or the deferred RUnlock.
ReadStep(t) == call'[t].name \in ReadOps /\ pc'[t] # pc[t]

\* The goroutine t runs the body of ToBytes in this step.
ToBytesStep(t) == pc[t] = "rcs" /\ call[t].name = "ToBytes" /\ pc'[t] = "runlock"

\* C24: no step of Image, Err, ToBytes or Clone changes the buffer, the
\* latched error or the configuration of a processor, nor any buffer;
\* ToBytes on a processor with a latched error returns that error and no
\* bytes; when the encoder fails on a processor without latched error,
\* ToBytes returns an error and no bytes, and the processor still has no
\* latched error.
C24_ReadsChangeNothing ==
  [][\A t \in Callers :
       /\ ReadStep(t)
            => /\ \A p \in 1..Len(procs) : procs'[p] = procs[p]
               /\ heap' = heap
       /\ ToBytesStep(t)
            => LET ip == procs[call[t].proc]
                   enc == encodeImage(heap[ip.currentImage], call[t].args.format)
               IN  /\ ip.err # NoErr
                        => ret'[t].err = ip.err /\ ret'[t].data = NoBytes
                   /\ (ip.err = NoErr /\ enc.err # "")
                        => /\ ret'[t].err # NoErr /\ ret'[t].data = NoBytes
                           /\ ret'[t].enc = enc.err
                           /\ procs'[call[t].proc].err = NoErr]_vars

\* ToBytes has returned an encode error on a processor that holds a buffer
\* and no latched error, and the goroutine has a call left to chain.
C24_Witness ==
  \E t \in Callers :
     /\ pc[t] = "runlock" /\ call[t].name = "ToBytes"
     /\ ret[t].enc # "" /\ ret[t].err # NoErr /\ ret[t].data = NoBytes
     /\ procs[call[t].proc].err = NoErr
     /\ procs[call[t].proc].currentImage # NilImage
     /\ left[t] > 0

\* C25: with a format tag other than FormatJPEG and FormatPNG (FormatGIF,
\* FormatUnknown, any other value) encodeImage returns an error and writes
\* no bytes, and ToBytes on a processor without latched error returns an
\* error and no bytes.
C25_NoEncoderNoBytes ==
  [][\A t \in Callers :
       (/\ ToBytesStep(t)
        /\ call[t].args.format \notin {FormatJPEG, FormatPNG}
        /\ procs[call[t].proc].err = NoErr)
         => LET enc == encodeImage(heap[procs[call[t].proc].currentImage],
                                   call[t].args.format)
            IN  /\ enc.err = (IF call[t].args.format = FormatGIF
                                THEN "GIF encoding is not directly supported"
                                ELSE "unsupported image format for encoding")
                /\ enc.data = NoBytes
                /\ ret'[t].err.kind = "failed to encode image to bytes"
                /\ ret'[t].enc = enc.err
                /\ ret'[t].data = NoBytes]_vars

\* ToBytes has returned on a processor without latched error for a tag
\* beyond FormatGIF.
C25_Witness ==
  \E t \in Callers :
     /\ pc[t] = "runlock" /\ call[t].name = "ToBytes"
     /\ call[t].args.format > FormatGIF
     /\ procs[call[t].proc].err = NoErr
     /\ ret[t].enc = "unsupported image format for encoding"
     /\ ret[t].data = NoBytes

\* C26: SetPerformanceOptions(cfg) makes cfg the configuration of the
\* processor and leaves its latched error, its buffer reference and every
\* buffer as they are, whether or not an error is latched; a later
\* GrayscaleFast on the processor runs under the configuration set last:
\* it forks the number of workers that configuration gives, or none.
C26_SetPerformanceOptions ==
  [][\A t \in Callers :
       LET p == call[t].proc
       IN  /\ (BodyStep(t) /\ call[t].name = "SetPerformanceOptions")
                => /\ procs'[p].perfOpts = call[t].args.opts
                   /\ procs'[p].err = procs[p].err
                   /\ procs'[p].currentImage = procs[p].currentImage
                   /\ heap' = heap
                   /\ pc'[t] = "unlock"
           /\ (/\ BodyStep(t) /\ call[t].name = "GrayscaleFast"
               /\ procs[p].err = NoErr /\ procs[p].currentImage # NilImage)
                => LET cur  == heap[procs[p].currentImage]
                       opts == LastOptions(oplog[p].born.ip.perfOpts, oplog[p].calls)
                   IN  /\ procs[p].perfOpts = opts
                       /\ pc'[t] = "wait" => par'[t].n = NumGoroutines(opts, Dy(cur))
                       /\ ~UseParallel(opts, Dx(cur), Dy(cur)) => par'[t].n = 0]_vars

\* SetPerformanceOptions has changed the configuration of a processor, and
\* the GrayscaleFast after it has forked the one worker the new
\* configuration asks for, where the configuration before asked for none.
C26_Witness ==
  \E t \in Callers :
     LET p == call[t].proc
         calls == oplog[p].calls
     IN  /\ pc[t] = "wait" /\ call[t].name = "GrayscaleFast"
         /\ Len(calls) = 1 /\ calls[1].c.name = "SetPerformanceOptions"
         /\ procs[p].perfOpts = calls[1].c.args.opts
         /\ par[t].n = 1 /\ Dy(heap[par[t].src]) > 1
         /\ ~UseParallel(oplog[p].born.ip.perfOpts,
                         Dx(heap[par[t].src]), Dy(heap[par[t].src]))

\* C27: Resize(w, h) with w > 0 and h > 0 on a processor without latched
\* error returns normally with the error still nil, and the current buffer
\* is one allocated by the call, with origin (0,0), width w and height h,
\* whatever the size of the source; the buffers that existed stay as they
\* were.
C27_ResizeExactSize ==
  [][\A t \in Callers :
       (/\ BodyStep(t) /\ call[t].name = "Resize"
        /\ call[t].args.width > 0 /\ call[t].args.height > 0
        /\ procs[call[t].proc].err = NoErr)
         => LET p   == call[t].proc
                new == heap'[procs'[p].currentImage]
            IN  /\ pc'[t] = "unlock"
                /\ procs'[p].err = NoErr
                /\ procs'[p].currentImage > Len(heap)
                /\ procs'[p].currentImage <= Len(heap')
                /\ SubSeq(heap', 1, Len(heap)) = heap
                /\ new.rgba
                /\ Bounds(new) = Rect(0, 0, call[t].args.width, call[t].args.height)
                /\ new.stride = 4 * call[t].args.width
                /\ Len(new.pix) = 4 * call[t].args.width * call[t].args.height]_vars

\* A Resize has enlarged the image the processor was made with.
C27_Witness ==
  \E t \in Callers :
     LET p == call[t].proc
     IN  /\ pc[t] = "unlock" /\ call[t].name = "Resize"
         /\ Len(oplog[p].calls) = 1
         /\ procs[p].err = NoErr
         /\ procs[p].currentImage # oplog[p].born.ip.currentImage
         /\ Dy(heap[procs[p].currentImage]) > Dy(heap[oplog[p].born.ip.currentImage])
         /\ Dx(heap[procs[p].currentImage]) = call[t].args.width
         /\ Dy(heap[procs[p].currentImage]) = call[t].args.height

\* C28: AddTextWatermark on a processor without latched error latches an
\* error and keeps the buffer when the text is empty, when the font bytes
\* do not parse, or when no face can be built; the empty text is reported
\* whatever the font bytes are; and when all three are in order the call
\* installs a new buffer with the bounds of the source and latches nothing.
C28_WatermarkErrors ==
  [][\A t \in Callers :
       (/\ BodyStep(t) /\ call[t].name = "AddTextWatermark"
        /\ procs[call[t].proc].err = NoErr)
         => LET p    == call[t].proc
                a    == call[t].args
                kept == /\ procs'[p].currentImage = procs[p].currentImage
                        /\ heap' = heap
            IN  /\ a.text = ""
                     => procs'[p].err.kind = "watermark text cannot be empty" /\ kept
                /\ (a.text # "" /\ ~a.fontParses)
                     => procs'[p].err.kind = "failed to parse font bytes for watermark" /\ kept
                /\ (a.text # "" /\ a.fontParses /\ ~a.faceBuilds)
                     => procs'[p].err.kind = "failed to create font face for watermark" /\ kept
                /\ (a.text # "" /\ a.fontParses /\ a.faceBuilds)
                     => /\ procs'[p].err = NoErr /\ pc'[t] = "unlock"
                        /\ procs'[p].currentImage > Len(heap)
                        /\ SubSeq(heap', 1, Len(heap)) = heap
                        /\ Bounds(heap'[procs'[p].currentImage])
                             = Bounds(heap[procs[p].currentImage])]_vars

\* AddTextWatermark with an empty text and font bytes that do not parse has
\* latched the empty-text error on a processor that keeps its buffer.
C28_Witness ==
  \E t \in Callers :
     LET p == call[t].proc
     IN  /\ pc[t] = "unlock" /\ call[t].name = "AddTextWatermark"
         /\ call[t].args.text = "" /\ ~call[t].args.fontParses
         /\ procs[p].err.kind = "watermark text cannot be empty"
         /\ procs[p].currentImage # NilImage
         /\ Len(oplog[p].calls) = 1

\* The anchor table, in 1/128 pixel: the draw origin for a position, for
\* bounds of boundsWidth x boundsHeight pixels, and for text metrics and
\* offsets in 1/64 pixel.
TableX(position, boundsWidth, textWidth, offsetX) ==
  CASE position \in {PositionTopLeft, PositionBottomLeft} -> 2 * offsetX
    [] position \in {PositionTopRight, PositionBottomRight} ->
         2 * (64 * boundsWidth - textWidth - offsetX)
    [] position = PositionCenter -> 64 * boundsWidth - textWidth

TableY(position, boundsHeight, textHeight, ascent, descent, offsetY) ==
  CASE position \in {PositionTopLeft, PositionTopRight} -> 2 * (offsetY + ascent)
    [] position \in {PositionBottomLeft, PositionBottomRight} ->
         2 * (64 * boundsHeight - offsetY - descent)
    [] position = PositionCenter -> (64 * boundsHeight - textHeight) + 2 * ascent

\* The goroutine t draws a watermark at one of the five positions in this
\* step.
WatermarkDraws(t) ==
  /\ BodyStep(t) /\ call[t].name = "AddTextWatermark"
  /\ call[t].args.cfg.Position \in PositionTopLeft..PositionCenter
  /\ procs'[call[t].proc].currentImage # procs[call[t].proc].currentImage

\* The Dot of the drawer of the last call logged for processor p.
LastDot(p) == oplog'[p].calls[Len(oplog'[p].calls)].dot

\* C29 as claimed: the draw origin of the watermark is the point the anchor
\* table gives for the position: TopLeft (offsetX, offsetY+ascent), TopRight
\* (boundsWidth-textWidth-offsetX, offsetY+ascent), BottomLeft (offsetX,
\* boundsHeight-offsetY-descent), BottomRight (boundsWidth-textWidth-offsetX,
\* boundsHeight-offsetY-descent), Center ((boundsWidth-textWidth)/2,
\* (boundsHeight-textHeight)/2+ascent).
C29_OriginIsTableValue ==
  [][\A t \in Callers :
       WatermarkDraws(t)
         => LET a == call[t].args
                b == Bounds(heap[procs[call[t].proc].currentImage])
            IN  /\ 128 * LastDot(call[t].proc)[1]
                     = 64 * TableX(a.cfg.Position, Dx(b), a.face.textWidth, a.cfg.OffsetX)
                /\ 128 * LastDot(call[t].proc)[2]
                     = 64 * TableY(a.cfg.Position, Dy(b), a.face.Height, a.face.Ascent,
                                   a.face.Descent, a.cfg.OffsetY)]_vars

\* C29, amended: the draw origin of the watermark is the point the anchor
\* table gives for the position, each coordinate truncated towards zero to
\* a whole number of pixels; Center does not use the offsets.
C29_OriginIsTruncatedTableValue ==
  [][\A t \in Callers :
       WatermarkDraws(t)
         => LET a == call[t].args
                b == Bounds(heap[procs[call[t].proc].currentImage])
            IN  /\ LastDot(call[t].proc)[1]
                     = 64 * Trunc(TableX(a.cfg.Position, Dx(b), a.face.textWidth,
                                         a.cfg.OffsetX), 128)
                /\ LastDot(call[t].proc)[2]
                     = 64 * Trunc(TableY(a.cfg.Position, Dy(b), a.face.Height, a.face.Ascent,
                                         a.face.Descent, a.cfg.OffsetY), 128)]_vars

\* A watermark has been drawn at the Center position with offsets that are
\* not zero, at an origin that is a whole pixel where the table value is
\* not.
C29_Witness ==
  \E t \in Callers :
     LET p == call[t].proc
         calls == oplog[p].calls
     IN  /\ pc[t] = "unlock" /\ call[t].name = "AddTextWatermark"
         /\ call[t].args.cfg.Position = PositionCenter
         /\ call[t].args.cfg.OffsetX # 0 /\ call[t].args.cfg.OffsetY # 0
         /\ procs[p].err = NoErr
         /\ Len(calls) = 1 /\ calls[1].c = call[t]
         /\ procs[p].currentImage # oplog[p].born.ip.currentImage
         /\ calls[1].dot[1] % 64 = 0
         /\ TableX(PositionCenter, Dx(heap[procs[p].currentImage]),
                   call[t].args.face.textWidth, call[t].args.cfg.OffsetX) % 128 # 0

\* The goroutine is inside GrayscaleFast, holding the writer lock.
InGrayscaleFast(t) == HoldsLock(t) /\ call[t].name = "GrayscaleFast"

\* The workers of the fork that have not yet run their deferred wg.Done().
Running(pr) == {i \in 1..pr.n : pr.w[i].state = "run"}

\* C30: every GrayscaleFast call eventually returns with the writer lock
\* released, for every buffer (zero rows and zero columns included) and
\* every performance configuration (MaxGoroutines <= 0 and
\* MinSizeForParallel <= 0 included): as many workers are waited for as were
\* spawned, each worker signals completion exactly once, and the call
\* neither blocks forever nor aborts.
C30_GrayscaleFastReturns ==
  /\ [](\A t \in Callers :
          call[t].name = "GrayscaleFast"
            => /\ ~crashed
               /\ pc[t] \notin {"unwind", "panicked"}
               /\ par[t].n = Len(par[t].w)
               /\ par[t].wg = Cardinality(Running(par[t]))
               /\ (pc[t] = "unlock" /\ par[t].n > 0) => par[t].wg = 0)
  /\ \A t \in Callers :
       InGrayscaleFast(t) ~> (pc[t] = "idle" /\ \A p \in 1..Len(locks) : locks[p].w # t)

\* A write call of goroutine t returns: the deferred Unlock has run after a
\* body that did not panic.
Returns(t) == pc[t] = "unlock" /\ pc'[t] = "idle"

\* C31: each of Crop, Resize, Grayscale, GrayscaleFast, AddTextWatermark and
\* SetPerformanceOptions returns the very processor it was called on, never
\* a copy, on success, on failure and on the short-circuit of a Failed
\* processor: no processor is made, and the next call of the chain acts on
\* the same one.
C31_ReturnsReceiver ==
  [][\A t \in Callers :
       (Returns(t) /\ call[t].name \in WriteOps)
         => /\ ret'[t].proc = call[t].proc
            /\ Len(procs') = Len(procs)]_vars

\* A chain of two calls has returned its receiver twice: first from a call
\* that succeeded or was short-circuited, then from a call that latched an
\* error.
C31_Witness ==
  \E t \in Callers :
     /\ pc[t] = "idle" /\ call[t].name \in WriteOps
     /\ ret[t].proc = call[t].proc
     /\ Len(oplog[call[t].proc].calls) = 2
     /\ Len(trail[call[t].proc]) >= 2
     /\ trail[call[t].proc][Len(trail[call[t].proc])] # NoErr
     /\ procs[call[t].proc].err # NoErr

\* The Go index of the first byte of the pixel in row y, column x of the
\* buffer, rows and columns counted from 0 at the buffer's top-left corner.
PixelIdx(img, x, y) == PixOffset(img, img.minX + x, img.minY + y)

\* The index addresses, inside Pix, the pixel of the buffer at (row y, column x).
AddressesPixel(img, idx, x, y) == InPix(img, idx) /\ idx = PixelIdx(img, x, y)

\* C32: every byte index that the sequential and the parallel grayscale
\* engines read in the source buffer and write in the destination buffer
\* lies within that buffer's byte array and addresses the pixel at the same
\* (row, column), for every source buffer, those whose bounds do not start
\* at (0,0) and those whose stride exceeds 4 * width included.
C32_IndicesAddressPixels ==
  \A t \in Callers :
     (~crashed /\ call[t].name = "GrayscaleFast")
       => /\ (pc[t] = "cs" /\ procs[call[t].proc].err = NoErr
                /\ procs[call[t].proc].currentImage # NilImage)
               => LET cur == heap[procs[call[t].proc].currentImage]
                      src == ToRGBA(cur)
                      dst == newRGBA(Bounds(cur))
                  IN  ~UseParallel(procs[call[t].proc].perfOpts, Dx(cur), Dy(cur))
                        => \A y \in 0..(Dy(cur) - 1), x \in 0..(Dx(cur) - 1) :
                              /\ AddressesPixel(src, SeqSrcIdx(src, x, y), x, y)
                              /\ AddressesPixel(dst, SeqDstIdx(dst, x, y), x, y)
          /\ pc[t] = "wait"
               => \A i \in Running(par[t]) :
                     LET src == heap[par[t].src]
                         dst == heap[par[t].dst]
                         me  == par[t].w[i]
                     IN  (Dx(dst) > 0 /\ me.y < WorkerEnd(par[t], i, Dy(dst)))
                           => /\ AddressesPixel(src, ParSrcIdx(src, me.x, me.y), me.x, me.y)
                              /\ AddressesPixel(dst, ParDstIdx(dst, me.x, me.y), me.x, me.y)

\* C33 as claimed: once an error is latched, every chainable method,
\* SetPerformanceOptions included, is a no-op that returns the processor
\* with buffer, latched error and performance configuration all unchanged.
C33_FailedIsNoOp ==
  [][\A t \in Callers :
       (InWrite(t) /\ call[t].name \in WriteOps /\ procs[call[t].proc].err # NoErr)
         => /\ procs'[call[t].proc] = procs[call[t].proc]
            /\ heap' = heap
            /\ Returns(t) => ret'[t].proc = call[t].proc]_vars

\* C33: once an error is latched, each of Crop, Resize, Grayscale,
\* GrayscaleFast and AddTextWatermark is a no-op that returns the processor
\* with buffer, latched error and performance configuration all unchanged,
\* and no buffer is allocated or written; SetPerformanceOptions returns the
\* processor with buffer and latched error unchanged and with the
\* configuration it was given.
C33_FailedTransformsAreNoOps ==
  [][\A t \in Callers :
       (InWrite(t) /\ call[t].name \in WriteOps /\ procs[call[t].proc].err # NoErr)
         => LET p == call[t].proc
            IN  /\ call[t].name \in Transforms => procs'[p] = procs[p]
                /\ procs'[p].err = procs[p].err
                /\ procs'[p].currentImage = procs[p].currentImage
                /\ (BodyStep(t) /\ call[t].name = "SetPerformanceOptions")
                     => procs'[p].perfOpts = call[t].args.opts
                /\ ~BodyStep(t) => procs'[p] = procs[p]
                /\ heap' = heap
                /\ pc'[t] \notin {"unwind", "wait"}
                /\ Returns(t) => ret'[t].proc = p]_vars

\* On a processor that holds a buffer and a latched error, a
\* SetPerformanceOptions has changed the configuration and returned.
C33_Witness ==
  \E t \in Callers :
     LET p == call[t].proc
         calls == oplog[p].calls
     IN  /\ pc[t] = "idle" /\ call[t].name = "SetPerformanceOptions"
         /\ ret[t].proc = p
         /\ Len(calls) = 2 /\ calls[1].c.name \in Transforms
         /\ procs[p].err # NoErr /\ procs[p].currentImage # NilImage
         /\ procs[p].perfOpts = call[t].args.opts
         /\ procs[p].perfOpts # oplog[p].born.ip.perfOpts

\* The body goroutine t is about to run calls Bounds() on a nil image.
DereferencesNil(t) ==
  /\ pc[t] = "cs" /\ call[t].name \in Transforms
  /\ IF call[t].name = "GrayscaleFast"
     THEN GrayscaleFast(StateOf(call[t].proc)).panic = "nil pointer dereference"
     ELSE Run(StateOf(call[t].proc), call[t]).panic = "nil pointer dereference"

InOperation(t) == pc[t] # "idle"

\* The goroutine holds, or waits for, a side of the lock of processor p.
HasLock(t, p) ==
  locks[p].w = t \/ t \in locks[p].readers \/ t \in locks[p].blocked

\* C35: every operation releases the processor lock on every return path
\* and never tries to acquire the lock it already holds (GrayscaleFast runs
\* grayscaleParallel and grayscaleDirect under the writer lock it took);
\* hence, under fair scheduling, the operations issued concurrently on one
\* processor all eventually return.
C35_OperationsReturn ==
  /\ [](\A t \in Callers :
          /\ pc[t] = "idle" => \A p \in 1..Len(locks) : ~HasLock(t, p)
          /\ \A p \in 1..Len(locks) :
                ~(locks[p].w = t /\ t \in locks[p].readers \cup locks[p].blocked)
          /\ InOperation(t) => ~crashed /\ pc[t] \notin {"unwind", "panicked"})
  /\ \A t \in Callers : InOperation(t) ~> ~InOperation(t)

\* C36: Crop checks the dimensions before the bounds.  A Crop with
\* width <= 0 or height <= 0 on a processor without latched error latches
\* the invalid-dimension error, never the out-of-bounds error, whatever x
\* and y are; a Crop on a processor with a latched error makes neither
\* error and keeps the earlier one.
C36_DimensionsBeforeBounds ==
  [][\A t \in Callers :
       (BodyStep(t) /\ call[t].name = "Crop")
         => LET p   == call[t].proc
                bad == call[t].args.width <= 0 \/ call[t].args.height <= 0
            IN  /\ (procs[p].err = NoErr /\ bad)
                     => procs'[p].err.kind = "crop dimensions must be positive"
                /\ (procs[p].err = NoErr
                      /\ procs'[p].err.kind = "crop rectangle is out of image bounds")
                     => ~bad
                /\ procs[p].err # NoErr
                     => procs'[p].err = procs[p].err /\ nerr' = nerr]_vars

\* A Crop with a negative height and a rectangle outside the image has
\* latched the invalid-dimension error, and a second Crop, with positive
\* dimensions and a rectangle outside the image, has kept that error.
C36_Witness ==
  \E t \in Callers :
     LET p == call[t].proc
         calls == oplog[p].calls
     IN  /\ pc[t] = "unlock" /\ call[t].name = "Crop"
         /\ Len(calls) = 2 /\ calls[1].c.name = "Crop"
         /\ calls[1].c.args.height < 0
         /\ procs[p].currentImage # NilImage
         /\ ~RectIn(Rect(calls[1].c.args.x, calls[1].c.args.y,
                         calls[1].c.args.x + calls[1].c.args.width,
                         calls[1].c.args.y + calls[1].c.args.height),
                    Bounds(heap[procs[p].currentImage]))
         /\ call[t].args.width > 0 /\ call[t].args.height > 0
         /\ trail[p][2].kind = "crop rectangle is out of image bounds"
         /\ procs[p].err = trail[p][1]
         /\ procs[p].err.kind = "crop dimensions must be positive"

Sizing == {"Crop", "Resize"}

RECURSIVE RequestedSize(_, _)
\* The width and height asked for by the last Crop or Resize among calls,
\* size when there is none.
RequestedSize(size, calls) ==
  IF calls = <<>> THEN size
  ELSE IF calls[Len(calls)].c.name \in Sizing
  THEN <<calls[Len(calls)].c.args.width, calls[Len(calls)].c.args.height>>
  ELSE RequestedSize(size, SubSeq(calls, 1, Len(calls) - 1))

\* The width and height of a buffer.
SizeOf(img) == <<Dx(img), Dy(img)>>

\* C37: along a chain in which every call succeeded, the current buffer has
\* the width and height asked for by the most recent Crop or Resize of the
\* chain, or those of the initial buffer when there is none; and Grayscale,
\* GrayscaleFast, AddTextWatermark and SetPerformanceOptions leave the
\* bounds of the current buffer as they were.
C37_SizeFollowsLastSizing ==
  [][\A t \in Callers :
       LET p == call[t].proc
       IN  /\ (pc'[t] = "unlock" /\ pc[t] \in {"cs", "wait"} /\ procs'[p].err = NoErr)
                => SizeOf(heap'[procs'[p].currentImage])
                     = RequestedSize(SizeOf(oplog'[p].born.heap[1]), oplog'[p].calls)
           /\ (pc'[t] = "unlock" /\ pc[t] \in {"cs", "wait"} /\ procs[p].err = NoErr
                 /\ call[t].name \in WriteOps \ Sizing)
                => Bounds(heap'[procs'[p].currentImage])
                     = Bounds(heap[procs[p].currentImage])]_vars

\* A Resize to a size other than that of the initial buffer, then an
\* AddTextWatermark, both without error: the buffer has the size asked of
\* Resize.
C37_Witness ==
  \E t \in Callers :
     LET p == call[t].proc
         calls == oplog[p].calls
     IN  /\ pc[t] = "unlock" /\ call[t].name = "AddTextWatermark"
         /\ procs[p].err = NoErr
         /\ Len(calls) = 2 /\ calls[1].c.name = "Resize"
         /\ SizeOf(heap[procs[p].currentImage])
              = <<calls[1].c.args.width, calls[1].c.args.height>>
         /\ SizeOf(heap[procs[p].currentImage]) # SizeOf(oplog[p].born.heap[1])

\* The value given by the last option called name in the list, default when
\* the list has none.
LastValue(options, name, default) ==
  LET set == {i \in 1..Len(options) : options[i].name = name}
  IN  IF set = {} THEN default
      ELSE options[CHOOSE i \in set : \A j \in set : j <= i].value

\* Field by field: the value of the last option that sets the field, the
\* default when no option does, and the text of the call.
ExpectedConfig(text, options) ==
  [Text |-> text,
   FontPath |-> LastValue(options, "WithFontPath", ""),
   FontBytes |-> LastValue(options, "WithFontBytes", "goregular.TTF"),
   FontSize |-> LastValue(options, "WithFontSize", DefaultFontSize),
   Color |-> LastValue(options, "WithColor", DefaultColor),
   Position |-> LastValue(options, "WithPosition", PositionBottomRight),
   OffsetX |-> LastValue(options, "WithOffset", <<DefaultOffset, DefaultOffset>>)[1],
   OffsetY |-> LastValue(options, "WithOffset", <<DefaultOffset, DefaultOffset>>)[2]]

\* The goroutine t runs the body of an AddTextWatermark called with options.
WatermarkRuns(t) ==
  /\ BodyStep(t) /\ call[t].name = "AddTextWatermark"
  /\ "options" \in DOMAIN call[t].args

Capitals ==
  {<<"J", "j">>, <<"P", "p">>, <<"E", "e">>, <<"G", "g">>, <<"N", "n">>, <<"I", "i">>,
   <<"U+0130", "i">>, <<"F", "f">>}

\* s spells the lower-case word w, in whatever case.
Spells(s, w) ==
  /\ Len(s) = Len(w)
  /\ \A i \in 1..Len(s) : s[i] = w[i] \/ <<s[i], w[i]>> \in Capitals

\* The format a spelling names, whatever its case; FormatUnknown when it
\* names none.
NamedFormat(s) ==
  IF Spells(s, <<"j", "p", "e", "g">>) \/ Spells(s, <<"j", "p", "g">>) THEN FormatJPEG
  ELSE IF Spells(s, <<"p", "n", "g">>) THEN FormatPNG
  ELSE IF Spells(s, <<"g", "i", "f">>) THEN FormatGIF
  ELSE FormatUnknown

\* Goroutine t returns from FormatFromString in this step.
FormatFromStringReturns(t) ==
  /\ call'[t].name = "FormatFromString"
  /\ \/ pc[t] = "arg" /\ pc'[t] = "idle"
     \/ pc[t] = "idle" /\ left'[t] < left[t]

\* C39: FormatFromString(f.String()) = f for each of the four formats;
\* FormatFromString returns the format its argument names whatever the case
\* of its letters ("jpeg" and "jpg" both name FormatJPEG), and FormatUnknown
\* for an argument that names none.
C39_FormatNamesRoundTrip ==
  [][\A t \in Callers :
       FormatFromStringReturns(t) =>
         /\ ret'[t].format = NamedFormat(call'[t].args.s)
         /\ call'[t].args.of \in ImageFormats =>
              /\ call'[t].args.s = String(call'[t].args.of)
              /\ ret'[t].format = call'[t].args.of]_vars

\* FormatFromString(FormatGIF.String()) has returned FormatGIF.
C39_Witness ==
  \E t \in Callers :
     /\ pc[t] = "idle"
     /\ call[t].name = "FormatFromString"
     /\ call[t].args.of = FormatGIF
     /\ call[t].args.s = <<"g", "i", "f">>
     /\ ret[t].format = FormatGIF

============================================================================
